---- MODULE Spec2Model ----
(***************************************************************************)
(* Model of the query log of iox_query (src/iox_query/src/query_log.rs):   *)
(* the bounded log of QueryLogEntry, and the QueryCompletedToken that      *)
(* drives an entry through its phases.  Every atomic store of an entry     *)
(* field is one step, so that a state of the model is what a concurrent    *)
(* reader of the entry may observe.                                        *)
(*                                                                         *)
(* Specifications:                                                         *)
(*   Spec            the query log and its tokens                          *)
(*   SpecConcurrent  concurrent calls of QueryLog::push                     *)
(*   SpecLive        one query from push to the end of its token, with the   *)
(*                   fairness of a holder that calls or drops and of a       *)
(*                   thread that keeps running                               *)
(*   SpecAtomic      one AtomicDuration and the calls of its methods       *)
(*   SpecTemplate    TablePartitionTemplateOverride::try_new on a table     *)
(*                   template and a namespace override                     *)
(*                   (src/data_types/src/partition_template.rs)            *)
(*   SpecDecode      build_column_values on a template and a partition key *)
(*   SpecRoundTrip   build_column_values on the key rendered from a row     *)
(*   SpecPanic       SendPanicsToTracing (src/panic_logging/src/lib.rs)     *)
(***************************************************************************)
EXTENDS Integers, Sequences, FiniteSets, TLC

(* ------------------------------ bounds --------------------------------- *)

\* number of calls made in a run: push on the log and planned, permit,
\* success, fail and drop on the tokens
MaxOps == 4
\* the injected clock returns a time in 0..MaxTime from now()
MaxTime == 2
\* the log is constructed with max_size in 0..MaxLogSize
MaxLogSize == 1
\* the AtomicI64 of an AtomicDuration is AtomicBits wide in place of 64, and
\* a Duration holds up to 2 * 2^AtomicBits - 1 nanoseconds
AtomicBits == 3
\* a template given to validation has up to MaxParts parts of any kind,
\* followed by none or by as many well-formed parts as bring it to
\* MAXIMUM_NUMBER_OF_TEMPLATE_PARTS parts, or to one more
MaxParts == 2
\* the first part of a partition key is any string of up to MaxPartLen
\* characters of KeyChars, or one of the longer parts of LongParts
MaxPartLen == 3
\* SpecRoundTrip: a short tag value of a row has up to MaxValueLen characters
MaxValueLen == 2
\* SpecRoundTrip: the encoder cuts a key part longer than MaxEncodedPartLen
\* bytes (PARTITION_KEY_MAX_PART_LEN, 200 in the code: the decoder does not
\* read it, and the strings of the model are short)
MaxEncodedPartLen == 6
\* SpecPanic: up to MaxGuards guards are made, and up to MaxPanics threads panic
MaxGuards == 2
MaxPanics == 2

(* ----------------------------- constants ------------------------------- *)

UNCOMPLETED_DURATION == -1

\* Option<T>: None is the empty sequence, Some(x) the sequence <<x>>
None == <<>>
Some(x) == <<x>>
IsSome(o) == o # <<>>
IsNone(o) == o = <<>>
Unwrap(o) == o[1]

Min(a, b) == IF a <= b THEN a ELSE b
Max(a, b) == IF a >= b THEN a ELSE b

(* ------------------------------ state ---------------------------------- *)

VARIABLES
    max_size,   \* QueryLog::max_size
    log,        \* QueryLog::log, the VecDeque of entries (as indices into entry)
    evicted,    \* QueryLog::evicted
    entry,      \* every QueryLogEntry allocated so far, in allocation order
    token,      \* the QueryCompletedToken of each entry
    atomic,     \* SpecAtomic: the AtomicI64 of one AtomicDuration
    atomic_call,            \* SpecAtomic: the last call made on it, and the cell before it
    custom_table_template,  \* try_new's Option<proto::PartitionTemplate>
    namespace_template,     \* try_new's NamespacePartitionTemplateOverride
    table_template,         \* what try_new returned, None before the call
    row,                    \* SpecRoundTrip: the row the key is rendered from
    partition_key,          \* SpecDecode: the key given to build_column_values
    column_values,          \* SpecDecode: what the iterator yields, None before the call
    panic_hook,             \* SpecPanic: the hook of std::panic
    guards,                 \* SpecPanic: the SendPanicsToTracing values
    arcs,                   \* SpecPanic: the hook inside the Arc made by each guard
    panic_count,            \* SpecPanic: thread_panic_count of each guard's registry
    last_panic              \* SpecPanic: what the last panic called, None before it

query_log_vars == <<max_size, log, evicted, entry, token>>
atomic_vars == <<atomic, atomic_call>>
template_vars == <<custom_table_template, namespace_template, table_template>>
decode_vars == <<row, partition_key, column_values>>
panic_vars == <<panic_hook, guards, arcs, panic_count, last_panic>>
vars == <<query_log_vars, atomic_vars, template_vars, decode_vars, panic_vars>>

(* --------------------------- AtomicDuration ---------------------------- *)

RECURSIVE Pow2(_)
Pow2(n) == IF n = 0 THEN 1 ELSE 2 * Pow2(n - 1)

\* `as i64` of the u128 of Duration::as_nanos: the low bits, in two's complement
AsI64(n) ==
    LET low == n % Pow2(AtomicBits)
    IN  IF low >= Pow2(AtomicBits - 1) THEN low - Pow2(AtomicBits) ELSE low

\* `as u64` of an i64
AsU64(d) == d % Pow2(AtomicBits)

\* AtomicDuration::get
Get(d) == IF d = UNCOMPLETED_DURATION THEN None ELSE Some(AsU64(d))

\* Time::checked_duration_since as used by set_relative
CheckedDurationSince(now, origin) == IF now >= origin THEN Some(now - origin) ELSE None

\* AtomicDuration::set_relative: the new value of the cell holding d
SetRelative(d, origin, now) ==
    IF IsSome(CheckedDurationSince(now, origin))
    THEN AsI64(Unwrap(CheckedDurationSince(now, origin)))
    ELSE d

\* AtomicDuration::set_absolute
SetAbsolute(d, dur) == AsI64(dur)

(* --------------------------- execution plans --------------------------- *)

\* an ExecutionPlan as the log sees it: metrics().elapsed_compute() and children()
Leaf(m) == [elapsed_compute |-> m, children |-> <<>>]
Node(m, cs) == [elapsed_compute |-> m, children |-> cs]

\* the plans handed to planned(): a single node as in the tests' TestExec, and
\* a node without metrics over two children
LeafPlan == Leaf(Some(1))
TreePlan == Node(None, <<Leaf(Some(1)), Leaf(Some(2))>>)
Plans == {LeafPlan, TreePlan}

RECURSIVE SumChildren(_, _)
RECURSIVE collect_compute_duration(_)
\* collect_compute_duration
collect_compute_duration(plan) ==
    (IF IsSome(plan.elapsed_compute) THEN Unwrap(plan.elapsed_compute) ELSE 0)
        + SumChildren(plan.children, 1)

SumChildren(cs, k) ==
    IF k > Len(cs) THEN 0
    ELSE collect_compute_duration(cs[k]) + SumChildren(cs, k + 1)

(* ------------------------------ entries -------------------------------- *)

Phases == {"Received", "Planned", "Permit", "Cancel", "Success", "Fail"}

\* the entry QueryLog::push allocates
NewEntry(now) ==
    [ issue_time        |-> now,
      permit_duration   |-> UNCOMPLETED_DURATION,
      plan_duration     |-> UNCOMPLETED_DURATION,
      execute_duration  |-> UNCOMPLETED_DURATION,
      end2end_duration  |-> UNCOMPLETED_DURATION,
      compute_duration  |-> UNCOMPLETED_DURATION,
      success           |-> FALSE,
      running           |-> TRUE,
      phase             |-> "Received" ]

\* QueryLogEntry's accessors
permit_duration(e)  == Get(e.permit_duration)
plan_duration(e)    == Get(e.plan_duration)
execute_duration(e) == Get(e.execute_duration)
end2end_duration(e) == Get(e.end2end_duration)
compute_duration(e) == Get(e.compute_duration)
cancelled(e)        == e.phase = "Cancel"

(* ------------------------------- tokens -------------------------------- *)

\* The token push returns.  state is the type state S; has_entry is
\* entry.is_some(); plan is the plan a StatePlanned/StatePermit holds (or the
\* argument of a planned() in progress).  pc is the position of the thread that
\* holds the token, next the position it reaches when a running Drop is over.
\* op, calls, t_plan, t_permit, t_finish, t_drop and finalised are history: the
\* last operation called, the number of calls made on the token, the clock
\* readings of set_time, permit, finish and drop, and the number of times
\* drop's finalisation has run.
NewToken(inserting) ==
    [ state     |-> "Received",
      has_entry |-> TRUE,
      plan      |-> None,
      pc        |-> IF inserting THEN "push" ELSE "idle",
      next      |-> "done",
      op        |-> "push",
      calls     |-> 0,
      t_plan    |-> None,
      t_permit  |-> None,
      t_finish  |-> None,
      t_drop    |-> None,
      finalised |-> 0 ]

\* State::plan
StatePlan(tok) == IF tok.state = "Received" THEN None ELSE tok.plan

\* mutant of Take: the entry is cloned out of the token, not taken
TakeLeavesEntry(has_entry) == has_entry

\* Option::take on the token's entry: what self.entry is afterwards
Take(has_entry) == FALSE

\* QueryCompletedToken::collect_compute_time: the new compute_duration
CollectComputeTime(tok, e) ==
    IF IsNone(StatePlan(tok)) THEN e.compute_duration
    ELSE SetAbsolute(e.compute_duration, collect_compute_duration(Unwrap(StatePlan(tok))))

Ids == DOMAIN entry

RECURSIVE CallsUpTo(_)
\* the number of calls made on the tokens 1..n
CallsUpTo(n) == IF n = 0 THEN 0 ELSE token[n].calls + CallsUpTo(n - 1)

\* the number of calls made so far: one push per entry, and the calls on the tokens
OpsMade == Len(entry) + CallsUpTo(Len(token))

\* Token i is in its holder's hands and one more call may be made on it.
\* A call on a token reads and writes its own entry and token only (and reads
\* the clock), so the runs explored drive one query through its phases while
\* the other queries are pushed and their tokens held: every state of one
\* entry, its token and the log that calls on several tokens reach
\* is reached by the run without the calls on the other tokens.
Callable(i) ==
    /\ token[i].pc = "idle"
    /\ OpsMade < MaxOps
    /\ \A j \in Ids \ {i} : token[j].calls = 0

\* entry i and token i change, the other entries and tokens do not
Update(i, e, tok) ==
    /\ entry' = [entry EXCEPT ![i] = e]
    /\ token' = [token EXCEPT ![i] = tok]

\* where the thread goes once the consumed `self` of planned()/permit() is
\* dropped: its Drop does nothing when the entry was taken out of it
AfterConsume(has_entry, then) == IF has_entry THEN "drop" ELSE then

(* ------------------------------ the clock ------------------------------ *)

\* The times the injected TimeProvider may return from now().  Each reading
\* is any of them: the clock may stand still, advance or go backwards between
\* two readings.
Times == 0..MaxTime

(* ------------------------------ QueryLog ------------------------------- *)

RECURSIVE EnforceLimitSparesRunning(_, _)
\* mutant of EnforceLimit: the loop pops the oldest entry that has stopped
\* running, and the front only when every entry is running
EnforceLimitSparesRunning(l, max) ==
    IF Len(l) > max
    THEN LET stopped == {k \in DOMAIN l : ~entry[l[k]].running}
             k == IF stopped = {} THEN 1
                  ELSE CHOOSE m \in stopped : \A n \in stopped : m <= n
         IN  EnforceLimitSparesRunning(
                 SubSeq(l, 1, k - 1) \o SubSeq(l, k + 1, Len(l)), max)
    ELSE l

RECURSIVE EnforceLimit(_, _)
\* push's loop `while log.len() > self.max_size { log.pop_front(); .. }`
EnforceLimit(l, max) == IF Len(l) > max THEN EnforceLimit(Tail(l), max) ELSE l

\* mutant of Stores: no early return, the entry is stored whatever max_size is
StoresAlways(max) == TRUE

\* push's test `if self.max_size == 0 { return token; }`: the entry is stored
Stores(max) == max # 0

\* push, up to the early return of max_size == 0: allocate the entry and the token
PushAlloc(now) ==
    /\ OpsMade < MaxOps
    /\ entry' = Append(entry, NewEntry(now))
    /\ token' = Append(token, NewToken(Stores(max_size)))
    /\ UNCHANGED <<max_size, log, evicted>>

\* mutant of PushInsert: the evictions are not counted
PushInsertUncounted(i) ==
    /\ token[i].pc = "push"
    /\ log' = Append(EnforceLimit(log, max_size), i)
    /\ token' = [token EXCEPT ![i].pc = "idle"]
    /\ UNCHANGED <<max_size, entry, evicted>>

\* push, under the lock: enforce the limit, then push_back
PushInsert(i) ==
    /\ token[i].pc = "push"
    /\ log' = Append(EnforceLimit(log, max_size), i)
    /\ evicted' = evicted + (Len(log) - Len(EnforceLimit(log, max_size)))
    /\ token' = [token EXCEPT ![i].pc = "idle"]
    /\ UNCHANGED <<max_size, entry>>

\* QueryLog::entries: the snapshot taken under the lock
entries == [entries |-> log, max_size |-> max_size, evicted |-> evicted]

(* ------------------------ QueryCompletedToken -------------------------- *)

\* StateReceived::set_time, called first by planned(plan)
PlannedSetTime(i, p, now) ==
    /\ Callable(i) /\ token[i].state = "Received"
    /\ Update(i,
         [entry[i] EXCEPT !.plan_duration = SetRelative(@, entry[i].issue_time, now)],
         [token[i] EXCEPT !.pc = "planned", !.plan = Some(p), !.op = "planned", !.calls = @ + 1,
                          !.t_plan = Some(now)])
    /\ UNCHANGED <<max_size, log, evicted>>

\* planned(): take the entry, store the phase, return the StatePlanned token
PlannedStore(i) ==
    /\ token[i].pc = "planned"
    /\ Update(i,
         [entry[i] EXCEPT !.phase = "Planned"],
         [token[i] EXCEPT !.state = "Planned",
                          !.has_entry = TRUE,
                          !.next = "idle",
                          !.pc = AfterConsume(Take(token[i].has_entry), "idle")])
    /\ UNCHANGED <<max_size, log, evicted>>

\* StateReceived::fail: set_time
ReceivedFailSetTime(i, now) ==
    /\ Callable(i) /\ token[i].state = "Received"
    /\ Update(i,
         [entry[i] EXCEPT !.plan_duration = SetRelative(@, entry[i].issue_time, now)],
         [token[i] EXCEPT !.pc = "rfail", !.op = "fail", !.calls = @ + 1, !.t_plan = Some(now)])
    /\ UNCHANGED <<max_size, log, evicted>>

\* StateReceived::fail: store the phase; self is dropped at the end of the call
ReceivedFailStore(i) ==
    /\ token[i].pc = "rfail"
    /\ Update(i,
         [entry[i] EXCEPT !.phase = "Fail"],
         [token[i] EXCEPT !.pc = "drop", !.next = "done"])
    /\ UNCHANGED <<max_size, log, evicted>>

\* mutant of PermitOrigin: plan_duration is left out of the origin
PermitOriginWithoutPlan(e) == e.issue_time

\* permit()'s origin: issue_time + plan_duration
PermitOrigin(e) == e.issue_time + Unwrap(plan_duration(e))

\* mutant of FinishOrigin: plan_duration is left out of the origin
FinishOriginWithoutPlan(e) == e.issue_time + Unwrap(permit_duration(e))

\* finish()'s origin: issue_time + permit_duration + plan_duration
FinishOrigin(e) == e.issue_time + Unwrap(permit_duration(e)) + Unwrap(plan_duration(e))

\* permit(): take the entry, expect plan_duration, store permit_duration.
\* The expect panics when plan_duration is unset; self then unwinds without its entry.
PermitSetTime(i, now) ==
    /\ Callable(i) /\ token[i].state = "Planned"
    /\ IF IsNone(plan_duration(entry[i]))
       THEN Update(i, entry[i],
              [token[i] EXCEPT !.op = "permit", !.calls = @ + 1, !.next = "panicked",
                               !.has_entry = Take(token[i].has_entry),
                               !.pc = AfterConsume(Take(token[i].has_entry), "panicked")])
       ELSE Update(i,
              [entry[i] EXCEPT !.permit_duration =
                  SetRelative(@, PermitOrigin(entry[i]), now)],
              [token[i] EXCEPT !.op = "permit", !.calls = @ + 1, !.pc = "permit", !.t_permit = Some(now)])
    /\ UNCHANGED <<max_size, log, evicted>>

\* permit(): store the phase, return the StatePermit token
PermitStore(i) ==
    /\ token[i].pc = "permit"
    /\ Update(i,
         [entry[i] EXCEPT !.phase = "Permit"],
         [token[i] EXCEPT !.state = "Permit",
                          !.has_entry = TRUE,
                          !.next = "idle",
                          !.pc = AfterConsume(Take(token[i].has_entry), "idle")])
    /\ UNCHANGED <<max_size, log, evicted>>

\* StatePermit::success: store success
SuccessFlag(i) ==
    /\ Callable(i) /\ token[i].state = "Permit"
    /\ Update(i,
         [entry[i] EXCEPT !.success = TRUE],
         [token[i] EXCEPT !.pc = "success", !.op = "success", !.calls = @ + 1])
    /\ UNCHANGED <<max_size, log, evicted>>

\* StatePermit::success: store the phase, then finish()
SuccessStore(i) ==
    /\ token[i].pc = "success"
    /\ Update(i,
         [entry[i] EXCEPT !.phase = "Success"],
         [token[i] EXCEPT !.pc = "finish"])
    /\ UNCHANGED <<max_size, log, evicted>>

\* StatePermit::fail: store the phase, then finish()
PermitFailStore(i) ==
    /\ Callable(i) /\ token[i].state = "Permit"
    /\ Update(i,
         [entry[i] EXCEPT !.phase = "Fail"],
         [token[i] EXCEPT !.pc = "finish", !.op = "fail", !.calls = @ + 1])
    /\ UNCHANGED <<max_size, log, evicted>>

\* finish(): expect permit_duration and plan_duration, store execute_duration.
\* A failed expect panics; self, which still has its entry, is dropped by the unwinding.
Finish(i, now) ==
    /\ token[i].pc = "finish"
    /\ IF IsNone(permit_duration(entry[i])) \/ IsNone(plan_duration(entry[i]))
       THEN Update(i, entry[i], [token[i] EXCEPT !.pc = "drop", !.next = "panicked"])
       ELSE Update(i,
              [entry[i] EXCEPT !.execute_duration =
                  SetRelative(@, FinishOrigin(entry[i]), now)],
              [token[i] EXCEPT !.pc = "collect", !.t_finish = Some(now)])
    /\ UNCHANGED <<max_size, log, evicted>>

\* finish(): collect_compute_time; self is dropped at the end of success()/fail()
FinishCollect(i) ==
    /\ token[i].pc = "collect"
    /\ Update(i,
         [entry[i] EXCEPT !.compute_duration = CollectComputeTime(token[i], entry[i])],
         [token[i] EXCEPT !.pc = "drop", !.next = "done"])
    /\ UNCHANGED <<max_size, log, evicted>>

\* mutant of DropCancels: is_none() turned into is_some()
DropCancelsWhenExecuted(e) == e.phase # "Fail" /\ IsSome(execute_duration(e))

\* mutant of DropCancels: the test of the phase Fail is left out
DropCancelsAlsoFailed(e) == IsNone(execute_duration(e))

\* the test of Drop::drop that turns the entry's phase into Cancel
DropCancels(e) == e.phase # "Fail" /\ IsNone(execute_duration(e))

\* the test of Drop::drop that collects the partial compute time
DropCollects(e) == IsSome(permit_duration(e))

\* Drop::drop, first part: take the entry; store Cancel unless the entry failed
\* or has an execute_duration.  Runs when the holder drops its token (pc "idle")
\* and when a call that consumed the token ends (pc "drop").
DropCheck(i) ==
    /\ Callable(i) \/ token[i].pc = "drop"
    /\ LET tok == IF token[i].pc = "idle"
                  THEN [token[i] EXCEPT !.op = "drop", !.calls = @ + 1, !.next = "done"]
                  ELSE token[i]
       IN  IF ~tok.has_entry
           THEN Update(i, entry[i], [tok EXCEPT !.pc = tok.next])
           ELSE IF DropCancels(entry[i])
                THEN Update(i,
                       [entry[i] EXCEPT !.phase = "Cancel"],
                       [tok EXCEPT !.has_entry = Take(@), !.pc = "drop_collect"])
                ELSE Update(i, entry[i],
                       [tok EXCEPT !.has_entry = Take(@), !.pc = "drop_end2end"])
    /\ UNCHANGED <<max_size, log, evicted>>

\* Drop::drop, cancelling: collect the partial compute time if a permit was given
DropCollect(i) ==
    /\ token[i].pc = "drop_collect"
    /\ Update(i,
         [entry[i] EXCEPT !.compute_duration =
             IF DropCollects(entry[i]) THEN CollectComputeTime(token[i], entry[i]) ELSE @],
         [token[i] EXCEPT !.pc = "drop_end2end"])
    /\ UNCHANGED <<max_size, log, evicted>>

\* Drop::drop: store end2end_duration
DropEnd2End(i, now) ==
    /\ token[i].pc = "drop_end2end"
    /\ Update(i,
         [entry[i] EXCEPT !.end2end_duration = SetRelative(@, entry[i].issue_time, now)],
         [token[i] EXCEPT !.pc = "drop_running", !.t_drop = Some(now)])
    /\ UNCHANGED <<max_size, log, evicted>>

\* Drop::drop: store running = false; the token is gone (or lives on as `next`)
DropRunning(i) ==
    /\ token[i].pc = "drop_running"
    /\ Update(i,
         [entry[i] EXCEPT !.running = FALSE],
         [token[i] EXCEPT !.pc = token[i].next, !.finalised = @ + 1])
    /\ UNCHANGED <<max_size, log, evicted>>

(* ---------------------- the parts a specification leaves alone -------- *)

\* the query log has no entry and is not used
QueryLogUnused ==
    max_size = 0 /\ log = <<>> /\ evicted = 0 /\ entry = <<>> /\ token = <<>>

\* the hooks of std::panic: the one installed before any guard, the one a
\* guard installs, and the one that drop installs for a moment
OriginalHook == [kind |-> "original", guard |-> 0]
TracingHook(g) == [kind |-> "tracing", guard |-> g]
DummyHook == [kind |-> "dummy", guard |-> 0]

Guards == 1..MaxGuards

\* PanicType::all
PanicTypes == {"unknown", "offset_overflow"}

\* no SendPanicsToTracing has been made
NoGuard == [state |-> "unborn", old_panic_hook |-> None, metrics |-> FALSE,
            while_panicking |-> FALSE]
PanicUnused ==
    /\ panic_hook = OriginalHook
    /\ guards = [g \in Guards |-> NoGuard]
    /\ arcs = [g \in Guards |-> None]
    /\ panic_count = [g \in Guards |-> [t \in PanicTypes |-> 0]]
    /\ last_panic = None

\* no key is decoded
DecodeUnused == row = None /\ partition_key = <<>> /\ column_values = None

\* no call has been made yet on the AtomicDuration
NoCall == [op |-> "default", origin |-> 0, now |-> 0, d |-> 0,
           before |-> UNCOMPLETED_DURATION, stored |-> FALSE]

\* the specifications of the other parts leave the AtomicDuration alone
AtomicUnused == atomic = UNCOMPLETED_DURATION /\ atomic_call = NoCall

(* ------------------------- partition templates ------------------------- *)

\* A string is the sequence of its characters.

\* str::contains
Contains(s, sub) ==
    \E k \in 0..(Len(s) - Len(sub)) : SubSeq(s, k + 1, k + Len(sub)) = sub

MAXIMUM_NUMBER_OF_TEMPLATE_PARTS == 8
TAG_VALUE_KEY_TIME == <<"t", "i", "m", "e">>
ALLOWED_BUCKET_QUANTITIES == [start |-> 1, end |-> 100000]

\* mutant of RangeContains: the start of the range is not tested
RangeContainsBelowEnd(r, n) == n < r.end

\* Range::contains
RangeContains(r, n) == r.start <= n /\ n < r.end

\* proto::TemplatePart: the oneof `part` is one of the three kinds, or not set
TagValuePart(value) == [kind |-> "TagValue", value |-> value, num_buckets |-> 0]
TimeFormatPart(fmt) == [kind |-> "TimeFormat", value |-> fmt, num_buckets |-> 0]
BucketPart(tag_name, n) == [kind |-> "Bucket", value |-> tag_name, num_buckets |-> n]
NonePart == [kind |-> "None", value |-> <<>>, num_buckets |-> 0]

\* ValidationError; TooManyParts carries `specified` and
\* InvalidNumberOfBuckets the count in n, the others their string in arg
NoError == [error |-> "", arg |-> <<>>, n |-> 0]
NoParts == [error |-> "NoParts", arg |-> <<>>, n |-> 0]
TooManyParts(specified) == [error |-> "TooManyParts", arg |-> <<>>, n |-> specified]
InvalidStrftime(s) == [error |-> "InvalidStrftime", arg |-> s, n |-> 0]
InvalidTagValue(s) == [error |-> "InvalidTagValue", arg |-> s, n |-> 0]
InvalidNumberOfBuckets(n) == [error |-> "InvalidNumberOfBuckets", arg |-> <<>>, n |-> n]
RepeatedTagValue(s) == [error |-> "RepeatedTagValue", arg |-> s, n |-> 0]

\* Result<T, ValidationError>
Ok(v) == [ok |-> TRUE, value |-> v, error |-> NoError]
Err(e) == [ok |-> FALSE, value |-> None, error |-> e]

\* the messages of the errors that do not carry the offending string
PermissiveOffsetMessage == <<"%#z cannot be used">>
TimeMessage == <<"time cannot be used">>

RECURSIVE StrftimeItems(_, _)
\* chrono's StrftimeItems::new(fmt), from the character at k on: the items of
\* the specifiers %Y %m %d %H %M %S, %z and %#z, %%, and Error for any other
\* specifier and for a `%` that ends the string
StrftimeItems(fmt, k) ==
    IF k > Len(fmt) THEN <<>>
    ELSE IF fmt[k] # "%"
    THEN <<[item |-> "Literal", of |-> fmt[k]]>> \o StrftimeItems(fmt, k + 1)
    ELSE IF k = Len(fmt) THEN <<[item |-> "Error", of |-> ""]>>
    ELSE CASE fmt[k + 1] = "Y" ->
                  <<[item |-> "Numeric", of |-> "Year"]>> \o StrftimeItems(fmt, k + 2)
           [] fmt[k + 1] = "m" ->
                  <<[item |-> "Numeric", of |-> "Month"]>> \o StrftimeItems(fmt, k + 2)
           [] fmt[k + 1] = "d" ->
                  <<[item |-> "Numeric", of |-> "Day"]>> \o StrftimeItems(fmt, k + 2)
           [] fmt[k + 1] = "H" ->
                  <<[item |-> "Numeric", of |-> "Hour"]>> \o StrftimeItems(fmt, k + 2)
           [] fmt[k + 1] = "M" ->
                  <<[item |-> "Numeric", of |-> "Minute"]>> \o StrftimeItems(fmt, k + 2)
           [] fmt[k + 1] = "S" ->
                  <<[item |-> "Numeric", of |-> "Second"]>> \o StrftimeItems(fmt, k + 2)
           [] fmt[k + 1] = "z" ->
                  <<[item |-> "Fixed", of |-> "TimezoneOffset"]>> \o StrftimeItems(fmt, k + 2)
           [] fmt[k + 1] = "%" ->
                  <<[item |-> "Literal", of |-> "%"]>> \o StrftimeItems(fmt, k + 2)
           [] fmt[k + 1] = "#" /\ k + 2 <= Len(fmt) /\ fmt[k + 2] = "z" ->
                  <<[item |-> "Fixed", of |-> "TimezoneOffsetPermissive"]>>
                      \o StrftimeItems(fmt, k + 3)
           [] OTHER ->
                  <<[item |-> "Error", of |-> ""]>> \o StrftimeItems(fmt, k + 2)

\* write!(dev_null, "{}", Utc::now().format_with_items(StrftimeItems::new(fmt)))
\* is Ok: formatting fails on an Error item
Renders(fmt) ==
    \A k \in DOMAIN StrftimeItems(fmt, 1) : StrftimeItems(fmt, 1)[k].item # "Error"

\* mutant of TagNameError: a name is never taken for repeated
TagNameErrorNeverRepeated(name, seen_tags) ==
    IF name = <<>> THEN InvalidTagValue(name)
    ELSE IF Contains(name, TAG_VALUE_KEY_TIME) THEN InvalidTagValue(TimeMessage)
    ELSE NoError

\* the three tests of a TagValue's value and of a Bucket's tag_name
TagNameError(name, seen_tags) ==
    IF name = <<>> THEN InvalidTagValue(name)
    ELSE IF Contains(name, TAG_VALUE_KEY_TIME) THEN InvalidTagValue(TimeMessage)
    ELSE IF name \in seen_tags THEN RepeatedTagValue(name)
    ELSE NoError

\* mutant of PartError: the count of a Bucket is tested before its tag_name
PartErrorCountFirst(part, seen_tags) ==
    CASE part.kind = "TimeFormat" ->
             IF part.value = <<>> THEN InvalidStrftime(part.value)
             ELSE IF Contains(part.value, <<"%", "#", "z">>)
             THEN InvalidStrftime(PermissiveOffsetMessage)
             ELSE IF ~Renders(part.value) THEN InvalidStrftime(part.value)
             ELSE NoError
      [] part.kind = "TagValue" -> TagNameError(part.value, seen_tags)
      [] part.kind = "Bucket" ->
             IF ~RangeContains(ALLOWED_BUCKET_QUANTITIES, part.num_buckets)
             THEN InvalidNumberOfBuckets(part.num_buckets)
             ELSE TagNameError(part.value, seen_tags)
      [] OTHER -> NoError

\* the tests of one part in the loop of Wrapper::try_from: the error the
\* part is rejected with, NoError if it is accepted
PartError(part, seen_tags) ==
    CASE part.kind = "TimeFormat" ->
             IF part.value = <<>> THEN InvalidStrftime(part.value)
             ELSE IF Contains(part.value, <<"%", "#", "z">>)
             THEN InvalidStrftime(PermissiveOffsetMessage)
             ELSE IF ~Renders(part.value) THEN InvalidStrftime(part.value)
             ELSE NoError
      [] part.kind = "TagValue" -> TagNameError(part.value, seen_tags)
      [] part.kind = "Bucket" ->
             IF TagNameError(part.value, seen_tags) # NoError
             THEN TagNameError(part.value, seen_tags)
             ELSE IF ~RangeContains(ALLOWED_BUCKET_QUANTITIES, part.num_buckets)
             THEN InvalidNumberOfBuckets(part.num_buckets)
             ELSE NoError
      [] OTHER -> NoError

RECURSIVE ValidateParts(_, _, _)
\* the loop of Wrapper::try_from from part k on, seen_tags being the names
\* inserted by the parts before
ValidateParts(parts, k, seen_tags) ==
    IF k > Len(parts) THEN Ok(parts)
    ELSE IF PartError(parts[k], seen_tags) # NoError
    THEN Err(PartError(parts[k], seen_tags))
    ELSE ValidateParts(parts, k + 1,
             IF parts[k].kind \in {"TagValue", "Bucket"}
             THEN seen_tags \cup {parts[k].value}
             ELSE seen_tags)

\* serialization::Wrapper::try_from(partition_template)
WrapperTryFrom(parts) ==
    IF Len(parts) = 0 THEN Err(NoParts)
    ELSE IF Len(parts) > MAXIMUM_NUMBER_OF_TEMPLATE_PARTS
    THEN Err(TooManyParts(Len(parts)))
    ELSE ValidateParts(parts, 1, {})

\* PARTITION_BY_DAY_PROTO
PARTITION_BY_DAY_PROTO == <<TimeFormatPart(<<"%", "Y", "-", "%", "m", "-", "%", "d">>)>>

\* mutant of TryNewResult: the namespace override wins over the table template
TryNewNamespaceFirst(custom, namespace) ==
    IF IsSome(namespace) THEN Ok(namespace)
    ELSE IF IsNone(custom) THEN Ok(None)
    ELSE IF WrapperTryFrom(Unwrap(custom)).ok THEN Ok(Some(Unwrap(custom)))
    ELSE WrapperTryFrom(Unwrap(custom))

\* TablePartitionTemplateOverride::try_new(custom_table_template, namespace_template)
TryNewResult(custom, namespace) ==
    IF IsSome(custom)
    THEN IF WrapperTryFrom(Unwrap(custom)).ok
         THEN Ok(Some(WrapperTryFrom(Unwrap(custom)).value))
         ELSE WrapperTryFrom(Unwrap(custom))
    ELSE IF IsSome(namespace) THEN Ok(namespace)
    ELSE Ok(None)

RECURSIVE FlatMapParts(_, _)
\* `.iter().flat_map(|part| part.part.as_ref())`: the parts that are set
FlatMapParts(parts, k) ==
    IF k > Len(parts) THEN <<>>
    ELSE IF parts[k].kind = "None" THEN FlatMapParts(parts, k + 1)
    ELSE <<parts[k]>> \o FlatMapParts(parts, k + 1)

\* TablePartitionTemplateOverride::parts, of the override o = self.0
Parts(o) == FlatMapParts(IF IsSome(o) THEN Unwrap(o) ELSE PARTITION_BY_DAY_PROTO, 1)

\* TablePartitionTemplateOverride::len
TemplateLen(o) == Len(Parts(o))

\* iceberg_hash's u32 as its sign bit and its other 31 bits
Hashes == {[sign |-> b, low |-> l] : b \in {0, 1}, l \in {0, 1, 99998, 99999, 100000, 2147483647}}

\* bucket_for_tag_value with hash = iceberg_hash(tag_value): Some(bucket id),
\* or None for the panic of the division by zero
bucket_for_tag_value(hash, num_buckets) ==
    IF num_buckets = 0 THEN None ELSE Some(hash.low % num_buckets)

\* the names, the formats and the bucket counts of the parts given to validation
Names == {<<>>, TAG_VALUE_KEY_TIME, <<"a">>, <<"b">>, <<"u", "p">> \o TAG_VALUE_KEY_TIME}
Formats == {<<>>, <<"%", "Y">>, <<"%", "#", "z">>, <<"%", "#", "Z">>}
BucketParts ==
    {BucketPart(<<"a">>, n) : n \in {0, 1, 99999, 100000}}
        \cup {BucketPart(<<"b">>, 2), BucketPart(<<>>, 1), BucketPart(TAG_VALUE_KEY_TIME, 0),
              BucketPart(<<"u", "p">> \o TAG_VALUE_KEY_TIME, 1)}
PartChoices ==
    {TagValuePart(v) : v \in Names} \cup {TimeFormatPart(f) : f \in Formats}
        \cup BucketParts \cup {NonePart}

\* n well-formed parts
WellFormed(n) == [k \in 1..n |-> TimeFormatPart(<<"%", "Y">>)]

\* the templates given to validation
ShortTemplates == UNION {[1..n -> PartChoices] : n \in 0..MaxParts}
Templates ==
    ShortTemplates
        \cup {t \o WellFormed(MAXIMUM_NUMBER_OF_TEMPLATE_PARTS - Len(t)) : t \in ShortTemplates}
        \cup {t \o WellFormed(MAXIMUM_NUMBER_OF_TEMPLATE_PARTS + 1 - Len(t)) : t \in ShortTemplates}

\* the namespace overrides: none, or a template that
\* NamespacePartitionTemplateOverride::try_from has accepted
NamespaceTemplates ==
    {None, Some(<<TagValuePart(<<"a">>)>>),
     Some(<<TimeFormatPart(<<"%", "Y">>), BucketPart(<<"b">>, 2)>>)}

\* the specifications of the other parts make no template
TemplateUnused ==
    custom_table_template = None /\ namespace_template = None /\ table_template = None

\* TablePartitionTemplateOverride::try_new
TryNew ==
    /\ table_template = None
    /\ table_template' = Some(TryNewResult(custom_table_template, namespace_template))
    /\ UNCHANGED <<custom_table_template, namespace_template>>

InitTemplate ==
    /\ custom_table_template \in {None} \cup {Some(t) : t \in Templates}
    /\ namespace_template \in NamespaceTemplates
    /\ table_template = None
    /\ AtomicUnused /\ QueryLogUnused /\ DecodeUnused /\ PanicUnused

NextTemplate == TryNew /\ UNCHANGED <<query_log_vars, atomic_vars, decode_vars, panic_vars>>

SpecTemplate == InitTemplate /\ [][NextTemplate]_vars

(* --------------------------- partition keys ---------------------------- *)

PARTITION_KEY_DELIMITER == "|"
PARTITION_KEY_VALUE_EMPTY_STR == <<"^">>
PARTITION_KEY_VALUE_NULL_STR == <<"!">>
PARTITION_KEY_PART_TRUNCATED == "#"
\* schema::TIME_COLUMN_NAME
TIME_COLUMN_NAME == <<"t", "i", "m", "e">>

\* the ASCII code of the characters of the keys
AsciiOf ==
    [c \in {"!", "#", "%", "+", "-", "|", "^", "T"} |->
        CASE c = "!" -> 33 [] c = "#" -> 35 [] c = "%" -> 37 [] c = "+" -> 43
          [] c = "-" -> 45 [] c = "|" -> 124 [] c = "^" -> 94 [] c = "T" -> 84]
        @@ [c \in {"0", "1", "2", "3", "4", "5", "6", "7", "8", "9"} |->
               CASE c = "0" -> 48 [] c = "1" -> 49 [] c = "2" -> 50 [] c = "3" -> 51
                 [] c = "4" -> 52 [] c = "5" -> 53 [] c = "6" -> 54 [] c = "7" -> 55
                 [] c = "8" -> 56 [] c = "9" -> 57]
        @@ [c \in {"A", "B", "C", "D", "E", "F"} |->
               CASE c = "A" -> 65 [] c = "B" -> 66 [] c = "C" -> 67 [] c = "D" -> 68
                 [] c = "E" -> 69 [] c = "F" -> 70]
        @@ [c \in {"a", "b", "c", "d", "e", "f"} |->
               CASE c = "a" -> 97 [] c = "b" -> 98 [] c = "c" -> 99 [] c = "d" -> 100
                 [] c = "e" -> 101 [] c = "f" -> 102]

\* char::is_ascii_digit and the value of the digit
IsDigit(c) == AsciiOf[c] >= 48 /\ AsciiOf[c] <= 57
DigitValue(c) == AsciiOf[c] - 48

\* the value of a hexadecimal digit of either case, None for another character
HexValue(c) ==
    IF IsDigit(c) THEN Some(DigitValue(c))
    ELSE IF AsciiOf[c] >= 65 /\ AsciiOf[c] <= 70 THEN Some(AsciiOf[c] - 55)
    ELSE IF AsciiOf[c] >= 97 /\ AsciiOf[c] <= 102 THEN Some(AsciiOf[c] - 87)
    ELSE None

RECURSIVE SplitFrom(_, _, _)
\* str::split(PARTITION_KEY_DELIMITER) from the character at k on, cur being
\* the characters of the part read so far
SplitFrom(s, k, cur) ==
    IF k > Len(s) THEN <<cur>>
    ELSE IF s[k] = PARTITION_KEY_DELIMITER THEN <<cur>> \o SplitFrom(s, k + 1, <<>>)
    ELSE SplitFrom(s, k + 1, Append(cur, s[k]))

\* partition_key.split(PARTITION_KEY_DELIMITER)
Split(s) == SplitFrom(s, 1, <<>>)

RECURSIVE percent_decode_str(_, _)
\* percent_encoding::percent_decode_str from the character at k on: the bytes
\* of the string, a `%` followed by two hexadecimal digits being one byte
percent_decode_str(s, k) ==
    IF k > Len(s) THEN <<>>
    ELSE IF /\ s[k] = "%" /\ k + 2 <= Len(s)
            /\ IsSome(HexValue(s[k + 1])) /\ IsSome(HexValue(s[k + 2]))
    THEN <<16 * Unwrap(HexValue(s[k + 1])) + Unwrap(HexValue(s[k + 2]))>>
             \o percent_decode_str(s, k + 3)
    ELSE <<AsciiOf[s[k]]>> \o percent_decode_str(s, k + 1)

\* a continuation byte of UTF-8
IsContinuation(b) == b >= 128 /\ b <= 191

RECURSIVE Utf8Valid(_, _)
\* decode_utf8 is Ok: the bytes from k on are well-formed UTF-8
Utf8Valid(b, k) ==
    IF k > Len(b) THEN TRUE
    ELSE IF b[k] < 128 THEN Utf8Valid(b, k + 1)
    ELSE IF b[k] >= 194 /\ b[k] <= 223
    THEN k + 1 <= Len(b) /\ IsContinuation(b[k + 1]) /\ Utf8Valid(b, k + 2)
    ELSE IF b[k] >= 224 /\ b[k] <= 239
    THEN /\ k + 2 <= Len(b)
         /\ IsContinuation(b[k + 1]) /\ IsContinuation(b[k + 2])
         /\ b[k] = 224 => b[k + 1] >= 160
         /\ b[k] = 237 => b[k + 1] <= 159
         /\ Utf8Valid(b, k + 3)
    ELSE IF b[k] >= 240 /\ b[k] <= 244
    THEN /\ k + 3 <= Len(b)
         /\ IsContinuation(b[k + 1]) /\ IsContinuation(b[k + 2]) /\ IsContinuation(b[k + 3])
         /\ b[k] = 240 => b[k + 1] >= 144
         /\ b[k] = 244 => b[k + 1] <= 143
         /\ Utf8Valid(b, k + 4)
    ELSE FALSE

\* a date of the proleptic Gregorian calendar, at 00:00:00 UTC
NoDate == [year |-> 0, month |-> 0, day |-> 0]

\* ColumnValue
Identity(v) == [variant |-> "Identity", value |-> v, begin |-> NoDate, end |-> NoDate,
                id |-> 0, num_buckets |-> 0]
Prefix(v) == [variant |-> "Prefix", value |-> v, begin |-> NoDate, end |-> NoDate,
              id |-> 0, num_buckets |-> 0]
Datetime(begin, end) == [variant |-> "Datetime", value |-> <<>>, begin |-> begin, end |-> end,
                         id |-> 0, num_buckets |-> 0]
Bucket(id, num_buckets) == [variant |-> "Bucket", value |-> <<>>, begin |-> NoDate,
                            end |-> NoDate, id |-> id, num_buckets |-> num_buckets]

\* what a parse_part_* function does: it returns Some(ColumnValue) or None, or panics
Returns(o) == [panics |-> FALSE, result |-> o]
Panics == [panics |-> TRUE, result |-> None]

\* the last character of the value is the truncation marker
EndsTruncated(value) == Len(value) > 0 /\ value[Len(value)] = PARTITION_KEY_PART_TRUNCATED

\* mutant of Remap: the empty string sentinel is not re-mapped
RemapNothing(value) == value

\* parse_part_tag_value's re-mapping of the sentinel "^" to the empty string
Remap(value) == IF value = PARTITION_KEY_VALUE_EMPTY_STR THEN <<>> ELSE value

\* mutant of parse_part_tag_value: the truncation marker stays in the prefix
parse_part_tag_value_keeps_marker(value) ==
    LET decoded == percent_decode_str(Remap(value), 1)
    IN  IF ~Utf8Valid(decoded, 1) THEN Panics
        ELSE IF EndsTruncated(Remap(value)) THEN Returns(Some(Prefix(decoded)))
        ELSE Returns(Some(Identity(decoded)))

\* parse_part_tag_value
parse_part_tag_value(value) ==
    LET decoded == percent_decode_str(Remap(value), 1)
    IN  IF ~Utf8Valid(decoded, 1) THEN Panics
        ELSE IF EndsTruncated(Remap(value))
        THEN Returns(Some(Prefix(SubSeq(decoded, 1, Len(decoded) - 1))))
        ELSE Returns(Some(Identity(decoded)))

RECURSIVE DecimalValue(_, _)
\* the number written by the first n digits of s
DecimalValue(s, n) == IF n = 0 THEN 0 ELSE 10 * DecimalValue(s, n - 1) + DigitValue(s[n])

\* value.parse::<u32>() for the numbers of up to nine digits: an optional `+`
\* and at least one digit, nothing else
ParseU32(value) ==
    LET digits == IF Len(value) > 0 /\ value[1] = "+" THEN Tail(value) ELSE value
    IN  IF Len(digits) > 0 /\ \A k \in DOMAIN digits : IsDigit(digits[k])
        THEN Some(DecimalValue(digits, Len(digits)))
        ELSE None

\* mutant of parse_part_bucket: the id may be the number of buckets
parse_part_bucket_inclusive(value, num_buckets) ==
    IF IsNone(ParseU32(value)) THEN Panics
    ELSE IF ~(Unwrap(ParseU32(value)) <= num_buckets) THEN Panics
    ELSE Returns(Some(Bucket(Unwrap(ParseU32(value)), num_buckets)))

\* parse_part_bucket
parse_part_bucket(value, num_buckets) ==
    IF IsNone(ParseU32(value)) THEN Panics
    ELSE IF ~(Unwrap(ParseU32(value)) < num_buckets) THEN Panics
    ELSE Returns(Some(Bucket(Unwrap(ParseU32(value)), num_buckets)))

(* ------------------------ time parts of a key --------------------------- *)

\* chrono::format::Parsed, the fields that parse_part_time_format reads
NewParsed == [year |-> None, month |-> None, day |-> None, hour_div_12 |-> None,
              hour_mod_12 |-> None, minute |-> None, second |-> None]

RECURSIVE CountDigits(_, _, _)
\* chrono's scan::number: how many digits, max at most, s has from k on
CountDigits(s, k, max) ==
    IF max = 0 \/ k > Len(s) THEN 0
    ELSE IF ~IsDigit(s[k]) THEN 0
    ELSE 1 + CountDigits(s, k + 1, max - 1)

\* Parsed::set_*: a field is set once, or again to the value it has
SetField(parsed, field, v) ==
    IF IsSome(parsed[field]) /\ Unwrap(parsed[field]) # v THEN None
    ELSE Some([parsed EXCEPT ![field] = Some(v)])

\* Parsed::set_year .. set_second for the numeric item `of`
SetNumeric(parsed, of, v) ==
    CASE of = "Year" -> SetField(parsed, "year", v)
      [] of = "Month" -> SetField(parsed, "month", v)
      [] of = "Day" -> SetField(parsed, "day", v)
      [] of = "Hour" ->
             IF IsNone(SetField(parsed, "hour_div_12", v \div 12)) THEN None
             ELSE SetField(Unwrap(SetField(parsed, "hour_div_12", v \div 12)),
                           "hour_mod_12", v % 12)
      [] of = "Minute" -> SetField(parsed, "minute", v)
      [] OTHER -> SetField(parsed, "second", v)

RECURSIVE ParseItems(_, _, _, _, _)
\* chrono::format::parse(&mut parsed, value, items) from the item i and the
\* character k on: Some(parsed) when the whole value matches the items.  A
\* numeric item reads 1 to 2 digits, the year 1 to 4 digits or a sign and any
\* number of digits; a literal reads itself.  An Error item fails, and so
\* does here a Fixed item, whose value parse_part_time_format never uses.
ParseItems(items, i, s, k, parsed) ==
    IF i > Len(items) THEN (IF k > Len(s) THEN Some(parsed) ELSE None)
    ELSE IF items[i].item = "Literal"
    THEN IF k <= Len(s) /\ s[k] = items[i].of
         THEN ParseItems(items, i + 1, s, k + 1, parsed)
         ELSE None
    ELSE IF items[i].item = "Numeric"
    THEN LET signed == items[i].of = "Year" /\ k <= Len(s) /\ s[k] \in {"-", "+"}
             from == IF signed THEN k + 1 ELSE k
             n == CountDigits(s, from, IF signed THEN Len(s)
                                       ELSE IF items[i].of = "Year" THEN 4 ELSE 2)
             abs == DecimalValue(SubSeq(s, from, from + n - 1), n)
             v == IF signed /\ s[k] = "-" THEN 0 - abs ELSE abs
         IN  IF n = 0 THEN None
             ELSE IF IsNone(SetNumeric(parsed, items[i].of, v)) THEN None
             ELSE ParseItems(items, i + 1, s, from + n,
                             Unwrap(SetNumeric(parsed, items[i].of, v)))
    ELSE None

\* mutant of parsed_implicit_defaults: a missing month is 1 whatever the day
parsed_implicit_defaults_any_day(parsed) ==
    IF IsNone(parsed.year) THEN None
    ELSE LET p1 == IF IsNone(parsed.month) THEN [parsed EXCEPT !.month = Some(1)] ELSE parsed
             p2 == IF IsNone(p1.day) THEN [p1 EXCEPT !.day = Some(1)] ELSE p1
         IN  Some([p2 EXCEPT !.hour_div_12 = Some(0), !.hour_mod_12 = Some(0),
                             !.minute = Some(0)])

\* parsed_implicit_defaults
parsed_implicit_defaults(parsed) ==
    IF IsNone(parsed.year) THEN None
    ELSE IF IsNone(parsed.month) /\ IsSome(parsed.day) THEN None
    ELSE LET p1 == IF IsNone(parsed.month) THEN [parsed EXCEPT !.month = Some(1)] ELSE parsed
         IN
         IF IsNone(p1.day) /\ (IsSome(p1.hour_div_12) \/ IsSome(p1.hour_mod_12)) THEN None
         ELSE LET p2 == IF IsNone(p1.day) THEN [p1 EXCEPT !.day = Some(1)] ELSE p1
                  no_hour == IsNone(p2.hour_div_12) \/ IsNone(p2.hour_mod_12)
              IN
              IF no_hour /\ (IsSome(p2.hour_div_12) \/ IsSome(p2.hour_mod_12)
                                 \/ IsSome(p2.minute))
              THEN None
              ELSE LET p3 == IF no_hour
                             THEN [p2 EXCEPT !.hour_div_12 = Some(0), !.hour_mod_12 = Some(0)]
                             ELSE p2
                   IN
                   IF IsNone(p3.minute) /\ IsSome(p3.second) THEN None
                   ELSE IF IsNone(p3.minute) THEN Some([p3 EXCEPT !.minute = Some(0)])
                   ELSE Some(p3)

\* the days of a month of the proleptic Gregorian calendar
IsLeapYear(y) == y % 4 = 0 /\ (y % 100 # 0 \/ y % 400 = 0)
DaysInMonth(y, m) ==
    IF m = 2 THEN (IF IsLeapYear(y) THEN 29 ELSE 28)
    ELSE IF m \in {4, 6, 9, 11} THEN 30 ELSE 31

\* parsed.to_datetime_with_timezone(&Utc).ok(): the date of the fields, when
\* they are a date and a time of day
ToDatetime(parsed) ==
    IF /\ Unwrap(parsed.month) >= 1 /\ Unwrap(parsed.month) <= 12
       /\ Unwrap(parsed.day) >= 1
       /\ Unwrap(parsed.day) <= DaysInMonth(Unwrap(parsed.year), Unwrap(parsed.month))
       /\ Unwrap(parsed.hour_div_12) <= 1
       /\ Unwrap(parsed.minute) <= 59
       /\ (IsSome(parsed.second) => Unwrap(parsed.second) <= 60)
    THEN Some([year |-> Unwrap(parsed.year), month |-> Unwrap(parsed.month),
               day |-> Unwrap(parsed.day)])
    ELSE None

\* begin + Months::new(n): the day is brought back into the month it falls in
AddMonths(date, n) ==
    LET total == date.year * 12 + (date.month - 1) + n
        y == total \div 12
        m == (total % 12) + 1
    IN  [year |-> y, month |-> m,
         day |-> IF date.day <= DaysInMonth(y, m) THEN date.day ELSE DaysInMonth(y, m)]

\* begin + Days::new(1)
AddDay(date) ==
    IF date.day < DaysInMonth(date.year, date.month) THEN [date EXCEPT !.day = @ + 1]
    ELSE IF date.month < 12 THEN [year |-> date.year, month |-> date.month + 1, day |-> 1]
    ELSE [year |-> date.year + 1, month |-> 1, day |-> 1]

\* a < b, for two dates
DateBefore(a, b) ==
    \/ a.year < b.year
    \/ a.year = b.year /\ a.month < b.month
    \/ a.year = b.year /\ a.month = b.month /\ a.day < b.day

RECURSIVE RangeEndLatest(_, _, _, _)
\* mutant of RangeEnd: the latest end of the items is kept
RangeEndLatest(items, i, begin, end) ==
    IF i > Len(items) THEN Some(end)
    ELSE IF items[i].item = "Literal" THEN RangeEndLatest(items, i + 1, begin, end)
    ELSE IF items[i].item = "Numeric" /\ items[i].of \in {"Year", "Month", "Day"}
    THEN LET item_end == IF items[i].of = "Year" THEN AddMonths(begin, 12)
                         ELSE IF items[i].of = "Month" THEN AddMonths(begin, 1)
                         ELSE AddDay(begin)
         IN  RangeEndLatest(items, i + 1, begin,
                 IF IsNone(end) THEN Some(item_end)
                 ELSE IF DateBefore(item_end, Unwrap(end)) THEN end
                 ELSE Some(item_end))
    ELSE None

RECURSIVE RangeEnd(_, _, _, _)
\* the loop of parse_part_time_format over the items from i on, `end` being
\* the end found so far: Some(the final end, itself an Option), or None for
\* the `return None` of an item that is not a literal, a year, a month or a day
RangeEnd(items, i, begin, end) ==
    IF i > Len(items) THEN Some(end)
    ELSE IF items[i].item = "Literal" THEN RangeEnd(items, i + 1, begin, end)
    ELSE IF items[i].item = "Numeric" /\ items[i].of \in {"Year", "Month", "Day"}
    THEN LET item_end == IF items[i].of = "Year" THEN AddMonths(begin, 12)
                         ELSE IF items[i].of = "Month" THEN AddMonths(begin, 1)
                         ELSE AddDay(begin)
         IN  RangeEnd(items, i + 1, begin,
                 IF IsNone(end) THEN Some(item_end)
                 ELSE IF DateBefore(Unwrap(end), item_end) THEN end
                 ELSE Some(item_end))
    ELSE None

\* parse_part_time_format
parse_part_time_format(value, format) ==
    LET items == StrftimeItems(format, 1)
        parsed == ParseItems(items, 1, value, 1, NewParsed)
    IN  IF IsNone(parsed) THEN None
        ELSE IF IsNone(parsed_implicit_defaults(Unwrap(parsed))) THEN None
        ELSE LET begin == ToDatetime(Unwrap(parsed_implicit_defaults(Unwrap(parsed))))
             IN  IF IsNone(begin) THEN None
                 ELSE LET end == RangeEnd(items, 1, Unwrap(begin), None)
                      IN  IF IsNone(end) THEN None
                          ELSE IF IsNone(Unwrap(end)) THEN None
                          ELSE Some(Datetime(Unwrap(begin), Unwrap(Unwrap(end))))

(* ------------------------- build_column_values -------------------------- *)

\* mutant of Zipped: a template part without a key part is paired with the
\* empty string
ZippedPadded(template_parts, key_parts) ==
    [k \in 1..Len(template_parts) |->
        [template |-> template_parts[k],
         value |-> IF k <= Len(key_parts) THEN key_parts[k] ELSE <<>>]]

\* template_parts.zip(key_parts)
Zipped(template_parts, key_parts) ==
    [k \in 1..Min(Len(template_parts), Len(key_parts)) |->
        [template |-> template_parts[k], value |-> key_parts[k]]]

\* the closure of filter_map for one (template, value) pair with a value
\* other than "!": the column name, and what the parse_part_* function does
DecodePair(pair) ==
    CASE pair.template.kind = "TagValue" ->
             [column |-> pair.template.value, parse |-> parse_part_tag_value(pair.value)]
      [] pair.template.kind = "TimeFormat" ->
             [column |-> TIME_COLUMN_NAME,
              parse |-> Returns(parse_part_time_format(pair.value, pair.template.value))]
      [] OTHER ->
             [column |-> pair.template.value,
              parse |-> parse_part_bucket(pair.value, pair.template.num_buckets)]

RECURSIVE FilterMap(_, _)
\* the iterator of build_column_values collected from the pair k on: the
\* tuples it yields, up to the pair at which it panics if it does
FilterMap(pairs, k) ==
    IF k > Len(pairs) THEN [panics |-> FALSE, columns |-> <<>>]
    ELSE IF pairs[k].value = PARTITION_KEY_VALUE_NULL_STR THEN FilterMap(pairs, k + 1)
    ELSE IF DecodePair(pairs[k]).parse.panics THEN [panics |-> TRUE, columns |-> <<>>]
    ELSE IF IsNone(DecodePair(pairs[k]).parse.result) THEN FilterMap(pairs, k + 1)
    ELSE [FilterMap(pairs, k + 1) EXCEPT
              !.columns = <<[column |-> DecodePair(pairs[k]).column,
                             value |-> Unwrap(DecodePair(pairs[k]).parse.result)]>> \o @]

\* build_column_values(template, partition_key), template.0 being o
build_column_values(o, key) == FilterMap(Zipped(Parts(o), Split(key)), 1)

\* the characters of the short parts of a key
KeyChars == {"a", "%", "2", "5", "#", "^", "!"}

\* a string written as the sequence of its characters
ShortParts == UNION {[1..n -> KeyChars] : n \in 0..MaxPartLen}
LongParts ==
    { <<"%", "C", "3", "%", "A", "1">>, <<"%", "C", "3", "%", "A", "1", "#">>,
      <<"a", "%", "7", "C", "a">>, <<"a", "a", "a", "a", "#">>,
      <<"2", "0", "2", "3">>, <<"2", "0", "2", "3", "-", "1", "2", "-", "3", "1">>,
      <<"9">>, <<"1", "0">>, <<"+", "2">>, <<"-", "2">> }

\* the decimal digits of a number, n of them
DigitChar(n) ==
    CASE n = 0 -> "0" [] n = 1 -> "1" [] n = 2 -> "2" [] n = 3 -> "3" [] n = 4 -> "4"
      [] n = 5 -> "5" [] n = 6 -> "6" [] n = 7 -> "7" [] n = 8 -> "8" [] n = 9 -> "9"
Pad2(n) == <<DigitChar((n \div 10) % 10), DigitChar(n % 10)>>
Pad4(n) == Pad2(n \div 100) \o Pad2(n % 100)

RECURSIVE RenderItems(_, _, _)
\* the strftime rendering of a date at 00:00:00 by the items from i on
RenderItems(items, i, date) ==
    IF i > Len(items) THEN <<>>
    ELSE (CASE items[i].item = "Literal" -> <<items[i].of>>
            [] items[i].item = "Numeric" /\ items[i].of = "Year" -> Pad4(date.year)
            [] items[i].item = "Numeric" /\ items[i].of = "Month" -> Pad2(date.month)
            [] items[i].item = "Numeric" /\ items[i].of = "Day" -> Pad2(date.day)
            [] items[i].item = "Numeric" -> Pad2(0)
            [] OTHER -> <<"+", "0", "0", "0", "0">>)
         \o RenderItems(items, i + 1, date)

\* the time part of a key for a date
RenderDate(format, date) == RenderItems(StrftimeItems(format, 1), 1, date)

\* the formats of the TimeFormat parts
TimeFormats ==
    { <<"%", "Y">>, <<"%", "Y", "-", "%", "m">>, <<"%", "Y", "-", "%", "m", "-", "%", "d">>,
      <<"%", "d", "-", "%", "m", "-", "%", "Y">>, <<"%", "m", "-", "%", "Y">>,
      <<"%", "Y", "%", "m", "%", "d">>,
      <<"%", "Y", "-", "%", "d">>, <<"%", "m">>, <<"%", "d">>, <<"%", "m", "-", "%", "d">>,
      <<"a">>,
      <<"%", "Y", "-", "%", "m", "-", "%", "d", "T", "%", "H">>,
      <<"%", "Y", "-", "%", "m", "-", "%", "d", "T", "%", "M">>,
      <<"%", "Y", "-", "%", "m", "-", "%", "d", "T", "%", "S">>,
      <<"%", "Y", "%", "z">> }

\* the dates of the time parts, and days that no month has
Dates == [year : {2023, 2024}, month : {1, 2, 12}, day : {1, 28, 29, 31}]
DateParts == {RenderDate(f, d) : f \in TimeFormats, d \in Dates}

\* the parts that follow the first part of a key
Rests ==
    { <<>>, <<<<"!">>>>, <<<<"a", "#">>>>, <<<<"^">>, <<"2">>>>,
      <<<<"!">>, <<"a">>, <<"5">>>>,
      <<<<"a">>, <<"a">>, <<"%", "2", "5">>, <<"2">>, <<"a">>>> }

RECURSIVE Join(_)
\* the parts joined by the delimiter
Join(parts) ==
    IF Len(parts) = 1 THEN parts[1]
    ELSE parts[1] \o <<PARTITION_KEY_DELIMITER>> \o Join(Tail(parts))

\* the partition keys
Keys == {Join(<<first>> \o rest) : first \in ShortParts \cup LongParts, rest \in Rests}

\* time parts that render no date of their format
OtherTimeParts ==
    { <<>>, <<"a">>, <<"!">>, <<"^">>, <<"2", "0", "2", "3", "-", "1">>,
      <<"2", "0", "2", "3", "-", "1", "3">>, <<"-", "2", "0", "2", "3">>,
      <<"2", "0", "2", "3", "-", "0", "1", "-", "0", "1", "T", "0", "5">> }

\* the keys that begin with a time part, alone or followed by a tag value
TimeKeys ==
    {Join(<<first>> \o rest) : first \in DateParts \cup OtherTimeParts,
                               rest \in {<<>>, <<<<"a">>>>}}

\* the templates of a TimeFormat part and a TagValue part
TimeTemplates == {Some(<<TimeFormatPart(f), TagValuePart(<<"a">>)>>) : f \in TimeFormats}

\* the templates of the keys: no override, validated templates, one of them
\* with a part that is not set, and a template made by
\* test_table_partition_override
DecodeTemplates ==
    { None,
      Some(<<TagValuePart(<<"a">>)>>),
      Some(<<TagValuePart(<<"a">>), TagValuePart(<<"b">>)>>),
      Some(<<NonePart, TagValuePart(<<"a">>)>>),
      Some(<<BucketPart(<<"c">>, 10), TagValuePart(<<"a">>)>>),
      Some(<<TimeFormatPart(<<"%", "Y">>), TagValuePart(<<"a">>), TagValuePart(<<"b">>),
             BucketPart(<<"c">>, 10)>>),
      Some(<<TagValuePart(<<"a">>), TagValuePart(<<"a">>), TimeFormatPart(<<"%", "Y">>)>>) }

\* the templates with their keys
DecodeInputs == (DecodeTemplates \X Keys) \cup (TimeTemplates \X TimeKeys)

\* the template of the key
Override == Unwrap(table_template).value

\* build_column_values(&template, partition_key).collect()
BuildColumnValues ==
    /\ column_values = None
    /\ column_values' = Some(build_column_values(Override, partition_key))
    /\ UNCHANGED <<custom_table_template, namespace_template, table_template, row,
                   partition_key>>

InitDecode ==
    /\ custom_table_template = None
    /\ namespace_template = None
    /\ \E input \in DecodeInputs :
           /\ table_template = Some(Ok(input[1]))
           /\ partition_key = input[2]
    /\ row = None
    /\ column_values = None
    /\ AtomicUnused /\ QueryLogUnused /\ PanicUnused

NextDecode == BuildColumnValues /\ UNCHANGED <<query_log_vars, atomic_vars, panic_vars>>

SpecDecode == InitDecode /\ [][NextDecode]_vars

(* ------------------------- the encoder of keys -------------------------- *)

\* the characters of the tag values of a row: a letter, the five characters
\* of the key format, a control character and a character of two bytes
ValueChars == {"a", "|", "!", "^", "#", "%", "LF", "a-acute"}

\* the UTF-8 bytes of a character
Utf8Of(c) ==
    CASE c = "LF" -> <<10>>
      [] c = "a-acute" -> <<195, 161>>
      [] OTHER -> <<AsciiOf[c]>>

RECURSIVE Utf8From(_, _)
\* the UTF-8 bytes of a string from the character k on
Utf8From(v, k) == IF k > Len(v) THEN <<>> ELSE Utf8Of(v[k]) \o Utf8From(v, k + 1)

\* the UTF-8 bytes of a string
Utf8Bytes(v) == Utf8From(v, 1)

\* an upper case hexadecimal digit
HexChar(n) ==
    IF n < 10 THEN DigitChar(n)
    ELSE CASE n = 10 -> "A" [] n = 11 -> "B" [] n = 12 -> "C" [] n = 13 -> "D"
           [] n = 14 -> "E" [] n = 15 -> "F"

\* the byte is one of | ! ^ # %, a control byte or not ASCII
Encoded(byte) == byte \in {124, 33, 94, 35, 37} \/ byte < 32 \/ byte >= 127

RECURSIVE EncodeBytes(_)
\* the percent-encoding of the bytes of one character
EncodeBytes(bytes) ==
    IF bytes = <<>> THEN <<>>
    ELSE <<"%", HexChar(bytes[1] \div 16), HexChar(bytes[1] % 16)>> \o EncodeBytes(Tail(bytes))

\* the percent-encoding of a character
EncodeChar(c) ==
    IF \E k \in DOMAIN Utf8Of(c) : Encoded(Utf8Of(c)[k]) THEN EncodeBytes(Utf8Of(c))
    ELSE <<c>>

RECURSIVE EncodeFrom(_, _)
\* the percent-encoding of a string from the character k on
EncodeFrom(v, k) == IF k > Len(v) THEN <<>> ELSE EncodeChar(v[k]) \o EncodeFrom(v, k + 1)

\* the percent-encoding of a string
EncodeString(v) == EncodeFrom(v, 1)

\* how many leading characters of a string have encodings that fit together
\* in max bytes
Fitting(v, max) ==
    CHOOSE n \in 0..Len(v) :
        /\ Len(EncodeString(SubSeq(v, 1, n))) <= max
        /\ n < Len(v) => Len(EncodeString(SubSeq(v, 1, n + 1))) > max

\* the encodings of the leading characters of a string that fit in max bytes
Truncated(v, max) == EncodeString(SubSeq(v, 1, Fitting(v, max)))

\* the key part of a tag value: `^` for the empty string, the encoding, or
\* the encoding cut between two characters and the truncation marker
EncodeTagValue(v) ==
    IF v = <<>> THEN PARTITION_KEY_VALUE_EMPTY_STR
    ELSE IF Len(EncodeString(v)) <= MaxEncodedPartLen THEN EncodeString(v)
    ELSE Truncated(v, MaxEncodedPartLen - 1) \o <<PARTITION_KEY_PART_TRUNCATED>>

RECURSIVE DecimalString(_)
\* a number in decimal
DecimalString(n) ==
    IF n < 10 THEN <<DigitChar(n)>> ELSE DecimalString(n \div 10) \o <<DigitChar(n % 10)>>

\* the value of a tag column of a row, None when the row has not the column
ColumnOf(r, name) ==
    CASE name = <<"a">> -> r.a
      [] name = <<"b">> -> r.b
      [] OTHER -> None

\* the key part of a template part for a row
EncodePart(part, r) ==
    CASE part.kind = "TagValue" ->
             IF IsNone(ColumnOf(r, part.value)) THEN PARTITION_KEY_VALUE_NULL_STR
             ELSE EncodeTagValue(Unwrap(ColumnOf(r, part.value)))
      [] part.kind = "TimeFormat" -> RenderDate(part.value, r.time)
      [] OTHER ->
             IF IsNone(r.c) THEN PARTITION_KEY_VALUE_NULL_STR
             ELSE DecimalString(Unwrap(bucket_for_tag_value(Unwrap(r.c), part.num_buckets)))

\* the key of a row: one part for each part of the template, joined by `|`
EncodeKey(o, r) == Join([k \in DOMAIN Parts(o) |-> EncodePart(Parts(o)[k], r)])

\* n times the character c
Repeat(c, n) == [i \in 1..n |-> c]

\* the tag values of the rows: the short ones, and those of about
\* MaxEncodedPartLen bytes once encoded
ShortValues == UNION {[1..n -> ValueChars] : n \in 0..MaxValueLen}
LongValues ==
    {Repeat("a", n) \o tail :
        n \in (MaxEncodedPartLen - 3)..MaxEncodedPartLen,
        tail \in UNION {[1..m -> {"a", "#", "a-acute"}] : m \in 1..2}}

\* the rows: the tag columns a and b, the hash of the tag column c, the time
Rows ==
    [a : {None} \cup {Some(v) : v \in ShortValues \cup LongValues},
     b : {None, Some(<<>>), Some(<<"|", "a">>)},
     c : {None, Some([sign |-> 0, low |-> 99999])},
     time : {[year |-> 2023, month |-> 12, day |-> 31]}]

\* the valid templates of the rows
RoundTripTemplates ==
    { None,
      Some(<<TagValuePart(<<"a">>)>>),
      Some(<<TagValuePart(<<"b">>), TagValuePart(<<"a">>)>>),
      Some(<<TimeFormatPart(<<"%", "Y">>), TagValuePart(<<"a">>), TagValuePart(<<"b">>),
             BucketPart(<<"c">>, 10)>>) }

InitRoundTrip ==
    /\ custom_table_template = None
    /\ namespace_template = None
    /\ table_template \in {Some(Ok(o)) : o \in RoundTripTemplates}
    /\ row \in {Some(r) : r \in Rows}
    /\ partition_key = EncodeKey(Unwrap(table_template).value, Unwrap(row))
    /\ column_values = None
    /\ AtomicUnused /\ QueryLogUnused /\ PanicUnused

SpecRoundTrip == InitRoundTrip /\ [][NextDecode]_vars

(* ------------------------- SendPanicsToTracing -------------------------- *)

\* the Arc that the closure of a hook holds: that of its guard for the hook
\* of a guard, none for the other hooks
Captured(hook) == IF hook.kind = "tracing" THEN {hook.guard} ELSE {}

RECURSIVE Reachable(_, _, _)
\* the Arcs that are referenced from the Arcs of `from`, through the hooks
\* they hold and the Arcs these hooks capture, in n steps
Reachable(from, as, n) ==
    IF n = 0 THEN from
    ELSE Reachable(from \cup UNION {Captured(Unwrap(as[a])) : a \in {b \in from : as[b] # None}},
                   as, n - 1)

\* the Arcs with a strong reference: those the fields old_panic_hook hold,
\* the one `local` holds, the one the installed hook captures, and those
\* referenced from them
Referenced(hook, gs, as, local) ==
    Reachable(Captured(hook) \cup local
                  \cup {a \in Guards : \E g \in Guards : gs[g].old_panic_hook = Some(a)},
              as, MaxGuards)

\* the Arcs after the ones without a strong reference are freed, with the
\* hooks they hold
Freed(hook, gs, as) ==
    [a \in Guards |-> IF a \in Referenced(hook, gs, as, {}) THEN as[a] ELSE None]

\* message(info): the payload when it is a &str or a String
Messages == {None, Some("offset"), Some("offset overflow"), Some("it's bananas")}

\* PanicType::classify
classify(message) ==
    IF message \in {Some("offset overflow"), Some("offset")} THEN "offset_overflow"
    ELSE "unknown"

\* SendPanicsToTracing::new_inner: the hook is taken into an Arc, that the
\* guard and the closure of the new hook hold
NewInner(g, metrics) ==
    /\ guards[g].state = "unborn"
    /\ \A h \in 1..(g - 1) : guards[h].state # "unborn"
    /\ arcs' = [arcs EXCEPT ![g] = Some(panic_hook)]
    /\ panic_hook' = TracingHook(g)
    /\ guards' = [guards EXCEPT ![g] = [state |-> "alive", old_panic_hook |-> Some(g),
                                        metrics |-> metrics, while_panicking |-> FALSE]]
    /\ UNCHANGED <<panic_count, last_panic>>

\* SendPanicsToTracing::new and new_with_metrics
New == \E g \in Guards : NewInner(g, FALSE)
NewWithMetrics == \E g \in Guards : NewInner(g, TRUE)

\* Arc::try_unwrap(old_panic_hook) is Ok in drop: once the dummy hook is
\* installed, no closure holds the Arc a any more
TryUnwrapOk(a, gs) ==
    \A b \in Referenced(DummyHook, gs, arcs, {a}) : arcs[b] # Some(TracingHook(a))

\* Drop for SendPanicsToTracing on a thread that is not panicking
DropGuard ==
    \E g \in Guards :
        /\ guards[g].state = "alive"
        /\ LET a == Unwrap(guards[g].old_panic_hook)
               gs == [guards EXCEPT ![g] = [@ EXCEPT !.state = "dropped",
                                                     !.old_panic_hook = None]]
               hook == IF TryUnwrapOk(a, gs) THEN Unwrap(arcs[a]) ELSE DummyHook
               as == IF TryUnwrapOk(a, gs) THEN [arcs EXCEPT ![a] = None] ELSE arcs
           IN  /\ guards' = gs
               /\ panic_hook' = hook
               /\ arcs' = Freed(hook, gs, as)
        /\ UNCHANGED <<panic_count, last_panic>>

\* Drop for SendPanicsToTracing while std::thread::panicking(): the hook is
\* left alone
DropGuardPanicking ==
    \E g \in Guards :
        /\ guards[g].state = "alive"
        /\ guards' = [guards EXCEPT ![g] = [@ EXCEPT !.state = "dropped",
                                                     !.old_panic_hook = None,
                                                     !.while_panicking = TRUE]]
        /\ arcs' = Freed(panic_hook, guards', arcs)
        /\ UNCHANGED <<panic_hook, panic_count, last_panic>>

RECURSIVE Reporters(_)
\* the guards whose closures a panic runs through, from the installed hook
\* down: each closure calls the hook of its Arc
Reporters(hook) ==
    IF hook.kind = "tracing" THEN <<hook.guard>> \o Reporters(Unwrap(arcs[hook.guard]))
    ELSE <<>>

RECURSIVE LastHook(_)
\* the hook at the end of the calls
LastHook(hook) == IF hook.kind = "tracing" THEN LastHook(Unwrap(arcs[hook.guard])) ELSE hook

\* the number of panics so far is that of the calls of the hooks
Panicked == last_panic # None

\* a thread panics: the installed hook is called
Panic ==
    \E message \in Messages :
        /\ (IF Panicked THEN Unwrap(last_panic).number ELSE 0) < MaxPanics
        /\ panic_count' =
               [g \in Guards |->
                   IF guards[g].metrics /\ \E i \in DOMAIN Reporters(panic_hook) :
                                                Reporters(panic_hook)[i] = g
                   THEN [panic_count[g] EXCEPT ![classify(message)] = @ + 1]
                   ELSE panic_count[g]]
        /\ last_panic' =
               Some([number |-> (IF Panicked THEN Unwrap(last_panic).number ELSE 0) + 1,
                     reported |-> Reporters(panic_hook),
                     last |-> LastHook(panic_hook).kind,
                     alive |-> {g \in Guards : guards[g].state = "alive"},
                     dropped |-> {g \in Guards : guards[g].state = "dropped"},
                     counted |-> {g \in Guards : panic_count'[g] # panic_count[g]}])
        /\ UNCHANGED <<panic_hook, guards, arcs>>

InitPanic ==
    /\ PanicUnused
    /\ AtomicUnused /\ QueryLogUnused /\ TemplateUnused /\ DecodeUnused

NextPanic ==
    \/ New /\ UNCHANGED <<query_log_vars, atomic_vars, template_vars, decode_vars>>
    \/ NewWithMetrics /\ UNCHANGED <<query_log_vars, atomic_vars, template_vars, decode_vars>>
    \/ DropGuard /\ UNCHANGED <<query_log_vars, atomic_vars, template_vars, decode_vars>>
    \/ DropGuardPanicking /\ UNCHANGED <<query_log_vars, atomic_vars, template_vars, decode_vars>>
    \/ Panic /\ UNCHANGED <<query_log_vars, atomic_vars, template_vars, decode_vars>>

SpecPanic == InitPanic /\ [][NextPanic]_vars

(* ------------------- AtomicDuration on its own -------------------------- *)

\* the durations and the times of the calls
Durations == 0..(2 * Pow2(AtomicBits) - 1)

\* self.set_relative(origin, now)
AtomicSetRelative(origin, now) ==
    /\ atomic' = SetRelative(atomic, origin, now)
    /\ atomic_call' = [op |-> "set_relative", origin |-> origin, now |-> now, d |-> 0,
                       before |-> atomic,
                       stored |-> atomic_call.stored \/ now >= origin]

\* self.set_absolute(d)
AtomicSetAbsolute(d) ==
    /\ atomic' = SetAbsolute(atomic, d)
    /\ atomic_call' = [op |-> "set_absolute", origin |-> 0, now |-> 0, d |-> d,
                       before |-> atomic, stored |-> TRUE]

\* AtomicDuration::default
InitAtomic == AtomicUnused /\ QueryLogUnused /\ TemplateUnused /\ DecodeUnused /\ PanicUnused

NextAtomic ==
    \/ \E origin \in Durations, now \in Durations :
           AtomicSetRelative(origin, now) /\ UNCHANGED <<query_log_vars, template_vars, decode_vars, panic_vars>>
    \/ \E d \in Durations :
           AtomicSetAbsolute(d) /\ UNCHANGED <<query_log_vars, template_vars, decode_vars, panic_vars>>

SpecAtomic == InitAtomic /\ [][NextAtomic]_vars

(* --------------------------- specification ----------------------------- *)

\* QueryLog::new_with_id_gen, with any max_size
Init ==
    /\ max_size \in 0..MaxLogSize
    /\ log = <<>>
    /\ evicted = 0
    /\ entry = <<>>
    /\ token = <<>>
    /\ AtomicUnused
    /\ TemplateUnused
    /\ DecodeUnused
    /\ PanicUnused

\* no push is between its allocation and its insertion
NoPushInFlight == \A j \in Ids : token[j].pc # "push"

\* Any interleaving of the steps of the calls, the pushes coming one after
\* the other (a push starts when no other push is in flight).
Next ==
    \/ \E now \in Times : NoPushInFlight /\ PushAlloc(now) /\ UNCHANGED <<atomic_vars, template_vars, decode_vars, panic_vars>>
    \/ \E i \in Ids : PushInsert(i) /\ UNCHANGED <<atomic_vars, template_vars, decode_vars, panic_vars>>
    \/ \E i \in Ids, p \in Plans, now \in Times : PlannedSetTime(i, p, now) /\ UNCHANGED <<atomic_vars, template_vars, decode_vars, panic_vars>>
    \/ \E i \in Ids : PlannedStore(i) /\ UNCHANGED <<atomic_vars, template_vars, decode_vars, panic_vars>>
    \/ \E i \in Ids, now \in Times : ReceivedFailSetTime(i, now) /\ UNCHANGED <<atomic_vars, template_vars, decode_vars, panic_vars>>
    \/ \E i \in Ids : ReceivedFailStore(i) /\ UNCHANGED <<atomic_vars, template_vars, decode_vars, panic_vars>>
    \/ \E i \in Ids, now \in Times : PermitSetTime(i, now) /\ UNCHANGED <<atomic_vars, template_vars, decode_vars, panic_vars>>
    \/ \E i \in Ids : PermitStore(i) /\ UNCHANGED <<atomic_vars, template_vars, decode_vars, panic_vars>>
    \/ \E i \in Ids : SuccessFlag(i) /\ UNCHANGED <<atomic_vars, template_vars, decode_vars, panic_vars>>
    \/ \E i \in Ids : SuccessStore(i) /\ UNCHANGED <<atomic_vars, template_vars, decode_vars, panic_vars>>
    \/ \E i \in Ids : PermitFailStore(i) /\ UNCHANGED <<atomic_vars, template_vars, decode_vars, panic_vars>>
    \/ \E i \in Ids, now \in Times : Finish(i, now) /\ UNCHANGED <<atomic_vars, template_vars, decode_vars, panic_vars>>
    \/ \E i \in Ids : FinishCollect(i) /\ UNCHANGED <<atomic_vars, template_vars, decode_vars, panic_vars>>
    \/ \E i \in Ids : DropCheck(i) /\ UNCHANGED <<atomic_vars, template_vars, decode_vars, panic_vars>>
    \/ \E i \in Ids : DropCollect(i) /\ UNCHANGED <<atomic_vars, template_vars, decode_vars, panic_vars>>
    \/ \E i \in Ids, now \in Times : DropEnd2End(i, now) /\ UNCHANGED <<atomic_vars, template_vars, decode_vars, panic_vars>>
    \/ \E i \in Ids : DropRunning(i) /\ UNCHANGED <<atomic_vars, template_vars, decode_vars, panic_vars>>

Spec == Init /\ [][Next]_vars

\* Threads that call push at the same time: a thread allocates its entry,
\* reading the clock, and later takes the lock and inserts it, while other
\* threads do the same.
NextConcurrent ==
    \/ \E now \in Times : PushAlloc(now) /\ UNCHANGED <<atomic_vars, template_vars, decode_vars, panic_vars>>
    \/ \E i \in Ids : PushInsert(i) /\ UNCHANGED <<atomic_vars, template_vars, decode_vars, panic_vars>>

SpecConcurrent == Init /\ [][NextConcurrent]_vars

\* what the thread that holds token i does next: the rest of the call it is
\* in, or the holder's next call on the token, or the drop of the token
Advance(i) ==
    \/ PushInsert(i) /\ UNCHANGED <<atomic_vars, template_vars, decode_vars, panic_vars>>
    \/ \E p \in Plans, now \in Times : PlannedSetTime(i, p, now) /\ UNCHANGED <<atomic_vars, template_vars, decode_vars, panic_vars>>
    \/ PlannedStore(i) /\ UNCHANGED <<atomic_vars, template_vars, decode_vars, panic_vars>>
    \/ \E now \in Times : ReceivedFailSetTime(i, now) /\ UNCHANGED <<atomic_vars, template_vars, decode_vars, panic_vars>>
    \/ ReceivedFailStore(i) /\ UNCHANGED <<atomic_vars, template_vars, decode_vars, panic_vars>>
    \/ \E now \in Times : PermitSetTime(i, now) /\ UNCHANGED <<atomic_vars, template_vars, decode_vars, panic_vars>>
    \/ PermitStore(i) /\ UNCHANGED <<atomic_vars, template_vars, decode_vars, panic_vars>>
    \/ SuccessFlag(i) /\ UNCHANGED <<atomic_vars, template_vars, decode_vars, panic_vars>>
    \/ SuccessStore(i) /\ UNCHANGED <<atomic_vars, template_vars, decode_vars, panic_vars>>
    \/ PermitFailStore(i) /\ UNCHANGED <<atomic_vars, template_vars, decode_vars, panic_vars>>
    \/ \E now \in Times : Finish(i, now) /\ UNCHANGED <<atomic_vars, template_vars, decode_vars, panic_vars>>
    \/ FinishCollect(i) /\ UNCHANGED <<atomic_vars, template_vars, decode_vars, panic_vars>>
    \/ DropCheck(i) /\ UNCHANGED <<atomic_vars, template_vars, decode_vars, panic_vars>>
    \/ DropCollect(i) /\ UNCHANGED <<atomic_vars, template_vars, decode_vars, panic_vars>>
    \/ \E now \in Times : DropEnd2End(i, now) /\ UNCHANGED <<atomic_vars, template_vars, decode_vars, panic_vars>>
    \/ DropRunning(i) /\ UNCHANGED <<atomic_vars, template_vars, decode_vars, panic_vars>>

\* a step of a thread that holds a token
HolderStep == \E i \in Ids : Advance(i)

\* The life of one query: it is pushed, and its token is called and dropped.
\* The push and the three calls a token allows are within MaxOps, so no call
\* is held back by the bound.
NextLive ==
    \/ \E now \in Times : entry = <<>> /\ PushAlloc(now) /\ UNCHANGED <<atomic_vars, template_vars, decode_vars, panic_vars>>
    \/ \E i \in Ids : PushInsert(i) /\ UNCHANGED <<atomic_vars, template_vars, decode_vars, panic_vars>>
    \/ \E i \in Ids, p \in Plans, now \in Times : PlannedSetTime(i, p, now) /\ UNCHANGED <<atomic_vars, template_vars, decode_vars, panic_vars>>
    \/ \E i \in Ids : PlannedStore(i) /\ UNCHANGED <<atomic_vars, template_vars, decode_vars, panic_vars>>
    \/ \E i \in Ids, now \in Times : ReceivedFailSetTime(i, now) /\ UNCHANGED <<atomic_vars, template_vars, decode_vars, panic_vars>>
    \/ \E i \in Ids : ReceivedFailStore(i) /\ UNCHANGED <<atomic_vars, template_vars, decode_vars, panic_vars>>
    \/ \E i \in Ids, now \in Times : PermitSetTime(i, now) /\ UNCHANGED <<atomic_vars, template_vars, decode_vars, panic_vars>>
    \/ \E i \in Ids : PermitStore(i) /\ UNCHANGED <<atomic_vars, template_vars, decode_vars, panic_vars>>
    \/ \E i \in Ids : SuccessFlag(i) /\ UNCHANGED <<atomic_vars, template_vars, decode_vars, panic_vars>>
    \/ \E i \in Ids : SuccessStore(i) /\ UNCHANGED <<atomic_vars, template_vars, decode_vars, panic_vars>>
    \/ \E i \in Ids : PermitFailStore(i) /\ UNCHANGED <<atomic_vars, template_vars, decode_vars, panic_vars>>
    \/ \E i \in Ids, now \in Times : Finish(i, now) /\ UNCHANGED <<atomic_vars, template_vars, decode_vars, panic_vars>>
    \/ \E i \in Ids : FinishCollect(i) /\ UNCHANGED <<atomic_vars, template_vars, decode_vars, panic_vars>>
    \/ \E i \in Ids : DropCheck(i) /\ UNCHANGED <<atomic_vars, template_vars, decode_vars, panic_vars>>
    \/ \E i \in Ids : DropCollect(i) /\ UNCHANGED <<atomic_vars, template_vars, decode_vars, panic_vars>>
    \/ \E i \in Ids, now \in Times : DropEnd2End(i, now) /\ UNCHANGED <<atomic_vars, template_vars, decode_vars, panic_vars>>
    \/ \E i \in Ids : DropRunning(i) /\ UNCHANGED <<atomic_vars, template_vars, decode_vars, panic_vars>>

\* A thread inside push, a call on the token or a Drop runs on, and the
\* holder of an idle token calls its next operation or drops it: a step of
\* the holder that stays possible is taken.
SpecLive == Init /\ [][NextLive]_vars /\ WF_vars(HolderStep)

(* ------------------------------- claims -------------------------------- *)

\* the number of pushes that have returned
Pushed == Cardinality({i \in Ids : token[i].pc # "push"})

\* the last n indices of allocation, oldest first
MostRecent(n) == [k \in 1..n |-> Len(entry) - n + k]

\* C1: after N pushes on a log with max_size = M > 0 the snapshot has
\* min(N, M) entries, evicted = max(0, N - M), and the entries are the M most
\* recently pushed ones in push order.
C1_BoundedLog ==
    (max_size > 0 /\ NoPushInFlight) =>
        /\ Len(entries.entries) = Min(Pushed, max_size)
        /\ entries.evicted = Max(0, Pushed - max_size)
        /\ entries.entries = MostRecent(Min(Pushed, max_size))

\* the edges of the phase diagram of QueryPhase
PhaseEdges ==
    { <<"Received", "Planned">>, <<"Planned", "Permit">>, <<"Permit", "Success">>,
      <<"Received", "Fail">>, <<"Permit", "Fail">>,
      <<"Received", "Cancel">>, <<"Planned", "Cancel">>, <<"Permit", "Cancel">> }

\* C2: the phase of an entry changes along the edges of the phase diagram
\* only; in particular nothing leaves Cancel, Success or Fail.
C2_PhaseEdges ==
    [][\A i \in Ids :
          entry'[i].phase # entry[i].phase =>
              <<entry[i].phase, entry'[i].phase>> \in PhaseEdges]_vars

\* C3: no call on the log or on a token panics, whatever the clock returns.
C3_Infallible == \A i \in Ids : token[i].pc # "panicked" /\ token[i].next # "panicked"

\* the phase is Fail and was reached from Permit
FailedAfterPermit(i) == entry[i].phase = "Fail" /\ token[i].state = "Permit"

\* C4: whoever reads an entry in phase X also reads the durations the
\* transition into X and the earlier ones record: Planned shows
\* plan_duration, Permit permit_duration, Success and Fail (after permit)
\* execute_duration, and every terminal phase end2end_duration.
C4_ReaderSeesDurations ==
    \A i \in Ids :
        /\ entry[i].phase = "Planned" => IsSome(plan_duration(entry[i]))
        /\ entry[i].phase = "Permit" => IsSome(permit_duration(entry[i]))
        /\ (entry[i].phase = "Success" \/ FailedAfterPermit(i)) =>
               IsSome(execute_duration(entry[i]))
        /\ entry[i].phase \in {"Cancel", "Success", "Fail"} =>
               IsSome(end2end_duration(entry[i]))

\* the clock readings of entry i: push, set_time, permit, finish, drop
T0(i) == entry[i].issue_time
T1(i) == Unwrap(token[i].t_plan)
T2(i) == Unwrap(token[i].t_permit)
T3(i) == Unwrap(token[i].t_finish)
TDrop(i) == Unwrap(token[i].t_drop)

\* the sum of the elapsed_compute metrics over the nodes of the plans of Plans
PlanTotal(plan) == IF plan = LeafPlan THEN 1 ELSE 3

\* success() or fail() was called on the StatePermit token of entry i and has returned
ExplicitlyCompleted(i) ==
    token[i].pc = "done" /\ token[i].state = "Permit" /\ token[i].op \in {"success", "fail"}

DroppedByHolder(i) == token[i].pc = "done" /\ token[i].op = "drop"

\* what the transitions before the drop recorded, by the readings
RecordedBeforeDrop(i) ==
    /\ plan_duration(entry[i]) =
           IF token[i].state = "Received" THEN None
           ELSE CheckedDurationSince(T1(i), T0(i))
    /\ permit_duration(entry[i]) =
           IF token[i].state = "Permit"
           THEN CheckedDurationSince(T2(i), T0(i) + entry[i].plan_duration)
           ELSE None

\* what C6 says but for end2end_duration
DropCancelsEntry(i) ==
    /\ entry[i].phase = "Cancel"
    /\ cancelled(entry[i])
    /\ ~entry[i].success
    /\ ~entry[i].running
    /\ IsNone(execute_duration(entry[i]))
    /\ RecordedBeforeDrop(i)

\* C6 as stated: a token dropped in Received, Planned or Permit leaves phase
\* Cancel, cancelled, no success, not running, end2end_duration = drop time -
\* issue_time, execute_duration unset, plan_duration and permit_duration as
\* recorded before.
C6_DropIsCancellation_Original ==
    \A i \in Ids :
        DroppedByHolder(i) =>
            /\ DropCancelsEntry(i)
            /\ end2end_duration(entry[i]) = Some(TDrop(i) - T0(i))

\* C6 amended: the same, with end2end_duration = drop time - issue_time when
\* the drop time is not before issue_time, and unset when it is.
C6_DropIsCancellation ==
    \A i \in Ids :
        DroppedByHolder(i) =>
            /\ DropCancelsEntry(i)
            /\ end2end_duration(entry[i]) =
                   IF TDrop(i) >= T0(i) THEN Some(TDrop(i) - T0(i)) ELSE None

\* C6 witness: a token dropped in Planned, two ticks after the push
C6_Witness ==
    \E i \in Ids :
        /\ DroppedByHolder(i) /\ token[i].state = "Planned"
        /\ entry[i].phase = "Cancel"
        /\ entry[i].plan_duration = 1
        /\ entry[i].end2end_duration = 2

\* C7: a dropped token leaves compute_duration unset when it was dropped in
\* Received or Planned, and set to the plan tree's sum when dropped in Permit.
C7_ComputeIffAfterPermit ==
    \A i \in Ids :
        DroppedByHolder(i) =>
            compute_duration(entry[i]) =
                IF token[i].state = "Permit"
                THEN Some(PlanTotal(Unwrap(token[i].plan)))
                ELSE None

\* fail() was called on the StateReceived token of entry i and has returned
PlanningFailed(i) ==
    token[i].pc = "done" /\ token[i].state = "Received" /\ token[i].op = "fail"

\* C8: fail() on a Received token at t1 >= t0 (the clock shows t1 during the
\* whole call): phase Fail, not cancelled, no success, not running,
\* plan_duration = end2end_duration = t1 - t0, the other durations unset; the
\* drop of the consumed token leaves Fail.
C8_PlanningFailure ==
    \A i \in Ids :
        (PlanningFailed(i) /\ T0(i) <= T1(i) /\ TDrop(i) = T1(i)) =>
            /\ entry[i].phase = "Fail"
            /\ ~cancelled(entry[i])
            /\ ~entry[i].success
            /\ ~entry[i].running
            /\ plan_duration(entry[i]) = Some(T1(i) - T0(i))
            /\ end2end_duration(entry[i]) = Some(T1(i) - T0(i))
            /\ IsNone(permit_duration(entry[i]))
            /\ IsNone(execute_duration(entry[i]))
            /\ IsNone(compute_duration(entry[i]))

\* C8 witness: a planning failure one tick after the push
C8_Witness ==
    \E i \in Ids :
        /\ PlanningFailed(i)
        /\ T0(i) = 1 /\ T1(i) = 2 /\ TDrop(i) = 2
        /\ entry[i].phase = "Fail"
        /\ entry[i].plan_duration = 1

\* the lifecycle of token i has ended in success(), fail() or a drop
LifecycleEnded(i) ==
    token[i].pc \in {"done", "panicked"} /\ token[i].op \in {"success", "fail", "drop"}

\* what C9 says but for the value of end2end_duration: the finalisation has
\* run once when the lifecycle has ended and not at all while the token is
\* held between two calls; running is false exactly when it has run.
FinalisedOnce(i) ==
    /\ token[i].finalised <= 1
    /\ LifecycleEnded(i) => token[i].finalised = 1 /\ IsSome(token[i].t_drop)
    /\ token[i].pc = "idle" =>
           token[i].finalised = 0 /\ IsNone(end2end_duration(entry[i]))
    /\ entry[i].running <=> token[i].finalised = 0

\* C9 as stated: finalisation runs exactly once per lifecycle, writes
\* end2end_duration = time of finalisation - issue_time and sets running to
\* false; planned() and permit() do not finalise.
C9_FinalisedOnce_Original ==
    \A i \in Ids :
        /\ FinalisedOnce(i)
        /\ LifecycleEnded(i) => end2end_duration(entry[i]) = Some(TDrop(i) - T0(i))

\* C9 amended: the same, with end2end_duration written when the time of
\* finalisation is not before issue_time, and left unset when it is.
C9_FinalisedOnce ==
    \A i \in Ids :
        /\ FinalisedOnce(i)
        /\ LifecycleEnded(i) =>
               end2end_duration(entry[i]) =
                   IF TDrop(i) >= T0(i) THEN Some(TDrop(i) - T0(i)) ELSE None

\* C9 witness: a token consumed by planned() and by permit() and then dropped
C9_Witness ==
    \E i \in Ids :
        /\ LifecycleEnded(i) /\ token[i].op = "drop" /\ token[i].state = "Permit"
        /\ token[i].finalised = 1
        /\ ~entry[i].running
        /\ entry[i].end2end_duration = 1

\* the phase and the durations of entry i are what the calls made on its token
\* record, by the clock readings of these calls
TokenWorks(i) ==
    /\ token[i].pc = "idle" => entry[i].phase = token[i].state
    /\ plan_duration(entry[i]) =
           IF IsSome(token[i].t_plan) THEN CheckedDurationSince(T1(i), T0(i)) ELSE None
    /\ permit_duration(entry[i]) =
           IF IsSome(token[i].t_permit)
           THEN CheckedDurationSince(T2(i), T0(i) + entry[i].plan_duration)
           ELSE None
    /\ execute_duration(entry[i]) =
           IF IsSome(token[i].t_finish)
           THEN CheckedDurationSince(T3(i), T0(i) + entry[i].plan_duration
                                                 + entry[i].permit_duration)
           ELSE None
    /\ end2end_duration(entry[i]) =
           IF IsSome(token[i].t_drop) THEN CheckedDurationSince(TDrop(i), T0(i)) ELSE None

\* C10: with max_size = 0 no push stores its entry (every snapshot is empty,
\* with evicted = 0), and the token drives its entry through the phases and
\* records the durations as it does with max_size > 0.
C10_TokensOnly ==
    /\ max_size = 0 =>
           /\ Len(entries.entries) = 0
           /\ entries.evicted = 0
           /\ NoPushInFlight
    /\ \A i \in Ids : TokenWorks(i)

\* C10 witness: a query pushed on a log with max_size = 0 and driven to Success
C10_Witness ==
    /\ max_size = 0
    /\ \E i \in Ids :
           /\ ExplicitlyCompleted(i)
           /\ entry[i].phase = "Success"
           /\ entry[i].end2end_duration = 2
           /\ entry[i].execute_duration = 1

\* the elements of a sequence
Range(s) == {s[k] : k \in DOMAIN s}

\* push has put entry i into the log
Inserted(i) == max_size # 0 /\ token[i].pc # "push"

\* entry i was in the log and a later push has popped it
Evicted(i) == Inserted(i) /\ i \notin Range(log)

\* a step that changes the log is the insertion of an entry i at the back
\* after k entries were popped from the front, whatever their state
EvictsFront ==
    log' # log =>
        \E i \in Ids, k \in 0..Len(log) :
            /\ token[i].pc = "push"
            /\ log' = Append(SubSeq(log, k + 1, Len(log)), i)
            /\ evicted' = evicted + k

\* the lifecycle of token i has ended and its entry shows it
SeesTerminal(i) ==
    LifecycleEnded(i) =>
        /\ entry[i].phase \in {"Cancel", "Success", "Fail"}
        /\ ~entry[i].running

\* C11: a push evicts from the front of the log whatever the state of the
\* entry there; the token of an evicted entry goes on recording the phase and
\* the durations in that entry up to its terminal phase; an evicted entry
\* never comes back into the log.
C11_EvictionIgnoresState ==
    [][/\ EvictsFront
       /\ \A i \in Ids : Evicted(i) => Evicted(i)'
       /\ \A i \in Ids : Evicted(i)' => TokenWorks(i)' /\ SeesTerminal(i)']_vars

\* C11 witness: the first entry was evicted by the third push while it was
\* running, and the drop of its token has made it Cancel
C11_Witness ==
    /\ log = <<2, 3>> /\ evicted = 1
    /\ Evicted(1)
    /\ DroppedByHolder(1)
    /\ entry[1].phase = "Cancel" /\ ~entry[1].running
    /\ entry[1].issue_time = 0 /\ entry[3].issue_time = 1
    /\ entry[1].end2end_duration = 2

\* C12: get() is None exactly when no store has succeeded; set_relative with
\* now = origin makes get() Some(0); set_relative with now < origin leaves the
\* cell as it was; set_absolute(d) makes get() Some(d).
C12_UnsetIsNotZero ==
    /\ IsNone(Get(atomic)) <=> ~atomic_call.stored
    /\ (atomic_call.op = "set_relative" /\ atomic_call.now = atomic_call.origin) =>
           Get(atomic) = Some(0)
    /\ (atomic_call.op = "set_relative" /\ atomic_call.now < atomic_call.origin) =>
           atomic = atomic_call.before
    /\ atomic_call.op = "set_absolute" => Get(atomic) = Some(atomic_call.d)

(* ---------------------- claims on partition templates ------------------- *)

\* try_new was given a table template and has returned
Validated == IsSome(custom_table_template) /\ IsSome(table_template)

\* the table template given, and what its validation returned
Given == Unwrap(custom_table_template)
Returned == Unwrap(table_template)

\* the defects of the part k of a template t
BadFormat(t, k) ==
    /\ t[k].kind = "TimeFormat"
    /\ \/ t[k].value = <<>>
       \/ Contains(t[k].value, <<"%", "#", "z">>)
       \/ \E i \in DOMAIN StrftimeItems(t[k].value, 1) :
              StrftimeItems(t[k].value, 1)[i].item = "Error"
HasName(t, k) == t[k].kind \in {"TagValue", "Bucket"}
BadName(t, k) ==
    HasName(t, k) /\ (t[k].value = <<>> \/ Contains(t[k].value, TAG_VALUE_KEY_TIME))
RepeatsName(t, k) ==
    HasName(t, k) /\ \E j \in 1..(k - 1) : HasName(t, j) /\ t[j].value = t[k].value
BadCount(t, k) ==
    t[k].kind = "Bucket" /\ (t[k].num_buckets < 1 \/ t[k].num_buckets >= 100000)
Defective(t, k) == BadFormat(t, k) \/ BadName(t, k) \/ RepeatsName(t, k) \/ BadCount(t, k)

\* the error of highest priority among the defects of the parts in ks
HighestPriority(t, ks) ==
    IF \E k \in ks : BadFormat(t, k) THEN "InvalidStrftime"
    ELSE IF \E k \in ks : BadName(t, k) THEN "InvalidTagValue"
    ELSE IF \E k \in ks : RepeatsName(t, k) THEN "RepeatedTagValue"
    ELSE IF \E k \in ks : BadCount(t, k) THEN "InvalidNumberOfBuckets"
    ELSE ""

\* the error of a template of a wrong length
LengthError(t) ==
    IF Len(t) = 0 THEN "NoParts"
    ELSE IF Len(t) > 8 THEN "TooManyParts"
    ELSE ""

\* the first defective part of t
FirstDefective(t) ==
    CHOOSE k \in DOMAIN t : Defective(t, k) /\ \A j \in 1..(k - 1) : ~Defective(t, j)

\* C13 as stated: the error returned is the one of highest priority among the
\* defects of the whole template: NoParts, TooManyParts, InvalidStrftime,
\* InvalidTagValue, RepeatedTagValue, InvalidNumberOfBuckets.
C13_ErrorPriority_Original ==
    Validated =>
        Returned.error.error =
            IF LengthError(Given) # "" THEN LengthError(Given)
            ELSE HighestPriority(Given, DOMAIN Given)

\* C13 amended: NoParts, then TooManyParts, come first; otherwise the error
\* is that of the first defective part in template order, and is the one of
\* highest priority among the defects of that part.
C13_ErrorPriority ==
    Validated =>
        /\ Returned.error.error =
               IF LengthError(Given) # "" THEN LengthError(Given)
               ELSE IF \E k \in DOMAIN Given : Defective(Given, k)
               THEN HighestPriority(Given, {FirstDefective(Given)})
               ELSE ""
        /\ Returned.ok <=> Returned.error = NoError
        /\ Returned.error.error = "TooManyParts" => Returned.error.n = Len(Given)

\* C13 witness: a Bucket with count 0 before an empty TimeFormat is rejected
\* for the count
C13_Witness ==
    /\ Validated
    /\ Given = <<BucketPart(<<"a">>, 0), TimeFormatPart(<<>>)>>
    /\ Returned = Err(InvalidNumberOfBuckets(0))

\* a template of the one part TagValue(name) or Bucket(name, 1)
NamesOnePart(t, name) == t = <<TagValuePart(name)>> \/ t = <<BucketPart(name, 1)>>

\* C14: a name is accepted if and only if it is not empty and not equal to
\* `time`; the other names are rejected with InvalidTagValue.
C14_ReservedNameIsTime ==
    Validated =>
        \A name \in Names :
            NamesOnePart(Given, name) =>
                /\ Returned.ok <=> (name # <<>> /\ name # TAG_VALUE_KEY_TIME)
                /\ ~Returned.ok => Returned.error.error = "InvalidTagValue"

\* the only defects of t are repeated names
OnlyRepeats(t) ==
    /\ LengthError(t) = ""
    /\ \A k \in DOMAIN t : ~BadFormat(t, k) /\ ~BadName(t, k) /\ ~BadCount(t, k)
    /\ \E k \in DOMAIN t : RepeatsName(t, k)

\* C15: a template in which a name occurs in two parts, of whatever kinds, is
\* rejected, with RepeatedTagValue(that name) when it has no other defect; the
\* names of the TagValue and Bucket parts of a validated template are
\* pairwise distinct.
C15_OneNamespace ==
    Validated =>
        /\ (\E k \in DOMAIN Given : RepeatsName(Given, k)) => ~Returned.ok
        /\ OnlyRepeats(Given) =>
               /\ Returned.error.error = "RepeatedTagValue"
               /\ \E k \in DOMAIN Given :
                      RepeatsName(Given, k) /\ Returned.error.arg = Given[k].value
        /\ Returned.ok =>
               \A j, k \in DOMAIN Given :
                   (HasName(Given, j) /\ HasName(Given, k) /\ j # k) =>
                       Given[j].value # Given[k].value

\* C15 witness: a Bucket after a TagValue of the same name
C15_Witness ==
    /\ Validated
    /\ Given = <<TagValuePart(<<"a">>), BucketPart(<<"a">>, 1)>>
    /\ Returned = Err(RepeatedTagValue(<<"a">>))

\* the only defects of t are bucket counts
OnlyCounts(t) ==
    /\ LengthError(t) = ""
    /\ \A k \in DOMAIN t : ~BadFormat(t, k) /\ ~BadName(t, k) /\ ~RepeatsName(t, k)
    /\ \E k \in DOMAIN t : BadCount(t, k)

\* C16: a Bucket is accepted only with 1 <= num_buckets < 100000; a count of
\* 0 or of 100000 and more is rejected, with InvalidNumberOfBuckets(count)
\* when the template has no other defect; for the Bucket parts of a validated
\* template bucket_for_tag_value does not divide by zero and returns an id
\* with 0 <= id < num_buckets.
C16_BucketRange ==
    Validated =>
        /\ (\E k \in DOMAIN Given : BadCount(Given, k)) => ~Returned.ok
        /\ OnlyCounts(Given) =>
               /\ Returned.error.error = "InvalidNumberOfBuckets"
               /\ Returned.error.n = Given[FirstDefective(Given)].num_buckets
        /\ Returned.ok =>
               \A k \in DOMAIN Parts(Returned.value) :
                   Parts(Returned.value)[k].kind = "Bucket" =>
                       \A h \in Hashes :
                           LET n == Parts(Returned.value)[k].num_buckets
                               id == bucket_for_tag_value(h, n)
                           IN  IsSome(id) /\ 0 <= Unwrap(id) /\ Unwrap(id) < n

\* C16 witness: the largest count is accepted, and the largest hash falls
\* into a bucket below it
C16_Witness ==
    /\ Validated /\ Returned.ok
    /\ Given = <<BucketPart(<<"a">>, 99999)>>
    /\ bucket_for_tag_value([sign |-> 1, low |-> 2147483647], 99999) = Some(2147483647 % 99999)

\* C17: a validated template has at least 1 and at most 8 parts:
\* 1 <= len() <= 8.
C17_OneToEightParts ==
    (Validated /\ Returned.ok) =>
        /\ 1 <= TemplateLen(Returned.value)
        /\ TemplateLen(Returned.value) <= 8

\* C18: try_new returns the table template when one is given and is valid,
\* its validation error when it is not (whatever the namespace override), the
\* namespace override as it is when no table template is given, and no
\* override when there is none, parts() being then the one part
\* TimeFormat("%Y-%m-%d").
C18_OverrideResolution ==
    IsSome(table_template) =>
        /\ (IsSome(custom_table_template) /\ WrapperTryFrom(Given).ok) =>
               Returned = Ok(custom_table_template)
        /\ (IsSome(custom_table_template) /\ ~WrapperTryFrom(Given).ok) =>
               /\ ~Returned.ok
               /\ Returned.error # NoError
               /\ Returned.error = WrapperTryFrom(Given).error
        /\ (IsNone(custom_table_template) /\ IsSome(namespace_template)) =>
               Returned = Ok(namespace_template)
        /\ (IsNone(custom_table_template) /\ IsNone(namespace_template)) =>
               /\ Returned = Ok(None)
               /\ Parts(Returned.value) =
                      <<TimeFormatPart(<<"%", "Y", "-", "%", "m", "-", "%", "d">>)>>

\* C18 witness: no table template, and a namespace override
C18_Witness ==
    /\ IsNone(custom_table_template)
    /\ namespace_template = Some(<<TagValuePart(<<"a">>)>>)
    /\ table_template = Some(Ok(namespace_template))
    /\ Parts(Returned.value) = <<TagValuePart(<<"a">>)>>

(* --------------------- claims on partition keys -------------------------- *)

\* build_column_values has been called on the template and the key
Decoded == column_values # None

\* what the iterator did
Yielded == Unwrap(column_values)

\* the template parts and the key parts, and the number of pairs of the two
TemplateParts == Parts(Override)
KeyParts == Split(partition_key)
Shorter == Min(Len(TemplateParts), Len(KeyParts))

\* the part k of the key is fatal to the decoder: a tag value that is not
\* UTF-8 once decoded, or a bucket id that is not a u32 of the bucket range
Fatal(k) ==
    /\ KeyParts[k] # PARTITION_KEY_VALUE_NULL_STR
    /\ \/ /\ TemplateParts[k].kind = "TagValue"
          /\ ~Utf8Valid(percent_decode_str(KeyParts[k], 1), 1)
       \/ /\ TemplateParts[k].kind = "Bucket"
          /\ \/ IsNone(ParseU32(KeyParts[k]))
             \/ Unwrap(ParseU32(KeyParts[k])) >= TemplateParts[k].num_buckets

\* the tuples the decoder rules give for the key part of a TagValue(name)
TagTuples(name, part) ==
    IF part = <<"!">> THEN <<>>
    ELSE IF part = <<"^">> THEN <<[column |-> name, value |-> Identity(<<>>)]>>
    ELSE IF part # <<>> /\ part[Len(part)] = "#"
    THEN <<[column |-> name,
            value |-> Prefix(percent_decode_str(SubSeq(part, 1, Len(part) - 1), 1))]>>
    ELSE <<[column |-> name, value |-> Identity(percent_decode_str(part, 1))]>>

\* the tuples of the part k: the decoder rules for a TagValue, the
\* parse_part_* function of the part for a TimeFormat or a Bucket
PartTuples(k) ==
    LET parsed == DecodePair([template |-> TemplateParts[k], value |-> KeyParts[k]])
    IN  IF TemplateParts[k].kind = "TagValue"
        THEN TagTuples(TemplateParts[k].value, KeyParts[k])
        ELSE IF KeyParts[k] = <<"!">> \/ IsNone(parsed.parse.result) THEN <<>>
        ELSE <<[column |-> parsed.column, value |-> Unwrap(parsed.parse.result)]>>

RECURSIVE TuplesUpTo(_)
\* the tuples of the parts 1..n, in template order
TuplesUpTo(n) == IF n = 0 THEN <<>> ELSE TuplesUpTo(n - 1) \o PartTuples(n)

\* C19: for a TagValue(name) part, the key part `!` gives no tuple, `^` gives
\* (name, Identity("")), a part ending in `#` gives (name, Prefix(p)) with p
\* the percent-decoding of the part without the `#`, any other part gives
\* (name, Identity(percent-decoding of the part)), and the tuples come in
\* template order; the decoder panics only at a part that is fatal to it
\* (a tag value that is not UTF-8 once decoded, or a bad bucket id).
C19_TagValueRules ==
    Decoded =>
        /\ Yielded.panics <=> \E k \in 1..Shorter : Fatal(k)
        /\ ~Yielded.panics => Yielded.columns = TuplesUpTo(Shorter)

\* the key `^|a%25#` of the template [a, b]: the empty string, then a
\* truncated value of which the `%25` is one byte
C19_Witness ==
    /\ Decoded
    /\ Override = Some(<<TagValuePart(<<"a">>), TagValuePart(<<"b">>)>>)
    /\ KeyParts[1] = <<"^">>
    /\ Len(KeyParts) = 2 /\ KeyParts[2] = <<"a", "#">>
    /\ Yielded.columns = <<[column |-> <<"a">>, value |-> Identity(<<>>)],
                           [column |-> <<"b">>, value |-> Prefix(<<97>>)]>>

\* C20: the template parts are zipped with the key parts and decoding stops
\* at the shorter side: the key parts beyond the template and the template
\* parts beyond the key change nothing, the mismatch makes no panic, and at
\* most min(template length, number of key parts) tuples are yielded.
C20_MismatchTolerated ==
    Decoded =>
        /\ Len(Yielded.columns) <= Shorter
        /\ Shorter <= TemplateLen(Override)
        /\ Yielded = build_column_values(Override, Join(SubSeq(KeyParts, 1, Shorter)))
        /\ Yielded = FilterMap(Zipped(SubSeq(TemplateParts, 1, Shorter), KeyParts), 1)
        /\ Yielded.panics => \E k \in 1..Shorter : Fatal(k)

\* a key of six parts for the template [a, b]: the last four are ignored
C20_Witness ==
    /\ Decoded
    /\ Len(TemplateParts) = 2
    /\ Len(KeyParts) = 6
    /\ ~Yielded.panics
    /\ Len(Yielded.columns) = 2

\* no part before the part k is fatal: the decoder reaches the part k
Reaches(k) == \A j \in 1..(k - 1) : ~Fatal(j)

\* the tuples yielded from the part k on, once those of the parts before it
\* are taken away
After(k) == SubSeq(Yielded.columns, Len(TuplesUpTo(k - 1)) + 1, Len(Yielded.columns))

\* the tuples yielded for the parts before the part k are those of these parts
Before(k) ==
    /\ Len(Yielded.columns) >= Len(TuplesUpTo(k - 1))
    /\ SubSeq(Yielded.columns, 1, Len(TuplesUpTo(k - 1))) = TuplesUpTo(k - 1)

\* C21: for a Bucket(name, count) part the decoder reaches, a key part that
\* parses as a u32 id below count gives (name, Bucket{id, num_buckets = count});
\* a key part that is no u32, or an id of count or more, makes the decoder
\* panic at that part; the key part `!` gives no tuple and no panic.
C21_BucketRules ==
    Decoded =>
        \A k \in 1..Shorter :
            (TemplateParts[k].kind = "Bucket" /\ Reaches(k)) =>
                LET part == KeyParts[k]
                    name == TemplateParts[k].value
                    count == TemplateParts[k].num_buckets
                    id == ParseU32(part)
                IN  /\ Before(k)
                    /\ IF part = <<"!">>
                       THEN /\ Yielded.panics => \E j \in (k + 1)..Shorter : Fatal(j)
                            /\ \A i \in DOMAIN After(k) : After(k)[i].column # name
                       ELSE IF IsSome(id) /\ Unwrap(id) < count
                       THEN /\ After(k) # <<>>
                            /\ After(k)[1] = [column |-> name, value |-> Bucket(Unwrap(id), count)]
                       ELSE /\ Yielded.panics
                            /\ After(k) = <<>>

\* the key `9|!` of the template [Bucket(c, 10), a]: the last bucket
C21_Witness ==
    /\ Decoded
    /\ Override = Some(<<BucketPart(<<"c">>, 10), TagValuePart(<<"a">>)>>)
    /\ partition_key = <<"9", "|", "!">>
    /\ Yielded = [panics |-> FALSE,
                  columns |-> <<[column |-> <<"c">>, value |-> Bucket(9, 10)]>>]

\* the numeric fields of the items of a format
Fields(format) ==
    {StrftimeItems(format, 1)[i].of :
        i \in {j \in DOMAIN StrftimeItems(format, 1) : StrftimeItems(format, 1)[j].item = "Numeric"}}

\* the format is made of %Y, %m, %d and literals
OnlyDateItems(format) ==
    /\ \A i \in DOMAIN StrftimeItems(format, 1) :
           StrftimeItems(format, 1)[i].item \in {"Literal", "Numeric"}
    /\ Fields(format) \subseteq {"Year", "Month", "Day"}

\* the fields of a format go from the year down without a gap
Compact(format) ==
    /\ "Year" \in Fields(format)
    /\ "Day" \in Fields(format) => "Month" \in Fields(format)

\* the day exists
IsDate(date) == date.day <= DaysInMonth(date.year, date.month)

\* the date of the fields of the format, the others being 1
BeginOf(format, date) ==
    [year |-> date.year,
     month |-> IF "Month" \in Fields(format) THEN date.month ELSE 1,
     day |-> IF "Day" \in Fields(format) THEN date.day ELSE 1]

\* the day after, the first day of the month after, the same day a year later
DayAfter(date) ==
    IF date.day < DaysInMonth(date.year, date.month)
    THEN [year |-> date.year, month |-> date.month, day |-> date.day + 1]
    ELSE IF date.month < 12 THEN [year |-> date.year, month |-> date.month + 1, day |-> 1]
    ELSE [year |-> date.year + 1, month |-> 1, day |-> 1]
MonthAfter(date) ==
    IF date.month < 12 THEN [year |-> date.year, month |-> date.month + 1, day |-> date.day]
    ELSE [year |-> date.year + 1, month |-> 1, day |-> date.day]
YearAfter(date) == [year |-> date.year + 1, month |-> date.month, day |-> date.day]

\* begin + the smallest step of the fields of the format
EndOf(format, begin) ==
    IF "Day" \in Fields(format) THEN DayAfter(begin)
    ELSE IF "Month" \in Fields(format) THEN MonthAfter(begin)
    ELSE YearAfter(begin)

\* C22: for a TimeFormat part of %Y, %m, %d and literals in any order, whose
\* fields go from the year down without a gap, the key part that renders a
\* date gives (time, Datetime{begin, end}): begin is the date of the fields,
\* a missing month or day being 1, end is begin plus the smallest step of
\* the fields (%d one day, %m one month, %Y twelve months), with the month
\* and the year rolling over, and begin < end.
C22_DatetimeRange ==
    Decoded =>
        \A k \in 1..Shorter :
            (/\ TemplateParts[k].kind = "TimeFormat" /\ Reaches(k)
             /\ OnlyDateItems(TemplateParts[k].value) /\ Compact(TemplateParts[k].value)) =>
                \A date \in Dates :
                    LET format == TemplateParts[k].value
                        begin == BeginOf(format, date)
                    IN  (IsDate(begin) /\ KeyParts[k] = RenderDate(format, date)) =>
                            /\ Before(k)
                            /\ After(k) # <<>>
                            /\ After(k)[1] = [column |-> TIME_COLUMN_NAME,
                                              value |-> Datetime(begin, EndOf(format, begin))]
                            /\ DateBefore(begin, EndOf(format, begin))

\* the key `2023-12-31` of the default template: the year rolls over
C22_Witness ==
    /\ Decoded
    /\ Override = None
    /\ partition_key = <<"2", "0", "2", "3", "-", "1", "2", "-", "3", "1">>
    /\ Yielded.columns =
           <<[column |-> TIME_COLUMN_NAME,
              value |-> Datetime([year |-> 2023, month |-> 12, day |-> 31],
                                 [year |-> 2024, month |-> 1, day |-> 1])]>>

RECURSIVE TuplesFromTo(_, _)
\* the tuples of the parts a..b, in template order
TuplesFromTo(a, b) == IF a > b THEN <<>> ELSE PartTuples(a) \o TuplesFromTo(a + 1, b)

\* the key part does not parse under the format, or as a day that no month has
NoParse(format, part) ==
    LET parsed == ParseItems(StrftimeItems(format, 1), 1, part, 1, NewParsed)
    IN  \/ IsNone(parsed)
        \/ /\ IsSome(Unwrap(parsed).year) /\ IsSome(Unwrap(parsed).month)
           /\ IsSome(Unwrap(parsed).day)
           /\ \/ Unwrap(Unwrap(parsed).month) \notin 1..12
              \/ Unwrap(Unwrap(parsed).day) \notin
                     1..DaysInMonth(Unwrap(Unwrap(parsed).year), Unwrap(Unwrap(parsed).month))

\* the format has an hour, a minute, a second or a fixed item
HasTimeOfDay(format) ==
    \/ Fields(format) \cap {"Hour", "Minute", "Second"} # {}
    \/ \E i \in DOMAIN StrftimeItems(format, 1) : StrftimeItems(format, 1)[i].item = "Fixed"

\* C23: a TimeFormat part gives no tuple and no panic when the key part does
\* not parse under the format, when the format has no year, has a finer
\* field without the next coarser one (%Y-%d, %m alone, %d alone), is made of
\* literals only, or has an hour, a minute, a second or a fixed item; the
\* other parts of the key are decoded all the same.
C23_TimeFormatDropped ==
    Decoded =>
        \A k \in 1..Shorter :
            (/\ TemplateParts[k].kind = "TimeFormat" /\ Reaches(k)
             /\ \/ NoParse(TemplateParts[k].value, KeyParts[k])
                \/ ~Compact(TemplateParts[k].value)
                \/ Fields(TemplateParts[k].value) = {}
                \/ HasTimeOfDay(TemplateParts[k].value)) =>
                /\ Yielded.panics => \E j \in (k + 1)..Shorter : Fatal(j)
                /\ Before(k)
                /\ \A i \in DOMAIN After(k) : After(k)[i].column # TIME_COLUMN_NAME
                /\ ~Yielded.panics => After(k) = TuplesFromTo(k + 1, Shorter)

\* the key `2023-28|a` of the template [%Y-%d, a]: a day without its month
C23_Witness ==
    /\ Decoded
    /\ Override = Some(<<TimeFormatPart(<<"%", "Y", "-", "%", "d">>), TagValuePart(<<"a">>)>>)
    /\ partition_key = <<"2", "0", "2", "3", "-", "2", "8", "|", "a">>
    /\ Yielded = [panics |-> FALSE,
                  columns |-> <<[column |-> <<"a">>, value |-> Identity(<<97>>)]>>]

(* ------------------------ claims on the round trip ----------------------- *)

\* the row of the key
Row == Unwrap(row)

\* the names of the TagValue parts of the template
TagNames == {TemplateParts[k].value : k \in {j \in DOMAIN TemplateParts :
                                                 TemplateParts[j].kind = "TagValue"}}

\* p is a prefix of the bytes b
IsPrefixOf(p, b) == Len(p) <= Len(b) /\ SubSeq(b, 1, Len(p)) = p

\* C24: the key rendered from a valid template and a row is decoded without
\* a panic, and every tuple of a TagValue column is either Identity(v) with v
\* the row's value of that column, or Prefix(p) with p a prefix of the bytes
\* of that value; a column the row has not gives no tuple.
C24_RoundTrip ==
    (Decoded /\ row # None) =>
        /\ ~Yielded.panics
        /\ \A i \in DOMAIN Yielded.columns :
               LET tuple == Yielded.columns[i]
               IN  tuple.column \in TagNames =>
                       /\ IsSome(ColumnOf(Row, tuple.column))
                       /\ tuple.value.variant \in {"Identity", "Prefix"}
                       /\ tuple.value.variant = "Identity" =>
                              tuple.value.value = Utf8Bytes(Unwrap(ColumnOf(Row, tuple.column)))
                       /\ tuple.value.variant = "Prefix" =>
                              IsPrefixOf(tuple.value.value,
                                         Utf8Bytes(Unwrap(ColumnOf(Row, tuple.column))))

\* a value of three letters and a character of two bytes, whose encoding
\* does not fit: the value is cut before that character
C24_Witness ==
    /\ Decoded /\ row # None
    /\ Override = Some(<<TagValuePart(<<"a">>)>>)
    /\ Row.a = Some(<<"a", "a", "a", "a-acute">>)
    /\ partition_key = <<"a", "a", "a", "#">>
    /\ Yielded.columns = <<[column |-> <<"a">>, value |-> Prefix(<<97, 97, 97>>)]>>

(* ------------------- claims on SendPanicsToTracing ----------------------- *)

\* no guard was dropped by the unwinding of a panic
DroppedOutsidePanics == \A g \in Guards : ~guards[g].while_panicking

\* C25: while a guard is alive every panic is reported, and counted, by it
\* and passed on to the hook that was installed before the first guard; once
\* all the guards are dropped, in whatever order, that hook is installed
\* again, and no panic is reported or counted by a dropped guard.
C25_HookRestored ==
    DroppedOutsidePanics =>
        /\ Panicked =>
               /\ \A g \in Unwrap(last_panic).alive :
                      /\ \E i \in DOMAIN Unwrap(last_panic).reported :
                             Unwrap(last_panic).reported[i] = g
                      /\ guards[g].metrics => g \in Unwrap(last_panic).counted
               /\ Unwrap(last_panic).alive # {} => Unwrap(last_panic).last = "original"
               /\ \A g \in Unwrap(last_panic).dropped :
                      /\ \A i \in DOMAIN Unwrap(last_panic).reported :
                             Unwrap(last_panic).reported[i] # g
                      /\ g \notin Unwrap(last_panic).counted
        /\ (\A g \in Guards : guards[g].state # "alive") => panic_hook = OriginalHook

(* -------------------- claims on the phases of an entry ------------------ *)

\* the readings of the clock made for entry i so far never went backwards
NonDecreasing(i) ==
    /\ IsSome(token[i].t_plan) => T0(i) <= T1(i)
    /\ IsSome(token[i].t_permit) => T1(i) <= T2(i)
    /\ IsSome(token[i].t_finish) => T2(i) <= T3(i)
    /\ IsSome(token[i].t_drop) =>
           /\ T0(i) <= TDrop(i)
           /\ IsSome(token[i].t_plan) => T1(i) <= TDrop(i)
           /\ IsSome(token[i].t_permit) => T2(i) <= TDrop(i)
           /\ IsSome(token[i].t_finish) => T3(i) <= TDrop(i)

\* push has returned and no call was made on the token of entry i
RightAfterPush(i) == token[i].calls = 0

\* what C26 says of an entry but for permit_duration in the phase Planned
PhaseDurations(i) ==
    /\ RightAfterPush(i) => entry[i] = NewEntry(T0(i))
    /\ entry[i].phase = "Planned" => IsSome(plan_duration(entry[i]))
    /\ entry[i].phase = "Permit" =>
           /\ IsSome(plan_duration(entry[i]))
           /\ permit_duration(entry[i]) = Some(T2(i) - (T0(i) + entry[i].plan_duration))
    /\ entry[i].phase \in {"Received", "Planned", "Permit"} =>
           /\ IsNone(execute_duration(entry[i]))
           /\ IsNone(end2end_duration(entry[i]))
           /\ IsNone(compute_duration(entry[i]))

C27_SuccessExcludesCancel ==
    \A i \in Ids :
        /\ ~(entry[i].success /\ cancelled(entry[i]))
        /\ entry[i].success =>
               \/ entry[i].phase = "Success"
               \/ entry[i].phase = "Permit" /\ token[i].pc = "success"
        /\ entry[i].phase = "Cancel" => ~entry[i].success

(* --------------------- claims on concurrent pushes ----------------------- *)

\* the pushes whose insertion is over
InsertionOver == {i \in Ids : token[i].pc # "push"}

\* what a snapshot taken now shows of the pushes
SnapshotConsistent ==
    max_size > 0 =>
        /\ Len(entries.entries) + entries.evicted = Cardinality(InsertionOver)
        /\ \A k, l \in DOMAIN entries.entries :
               k # l => entries.entries[k] # entries.entries[l]
        /\ \A k \in DOMAIN entries.entries : entries.entries[k] \in InsertionOver

\* C28: with max_size > 0 and pushes that run at the same time, a snapshot
\* taken in any state has as many entries, with the evicted ones, as pushes
\* have completed their insertion, has no entry twice, and its evicted count
\* is not below the one of a snapshot taken before.
C28_SnapshotConsistent ==
    [][SnapshotConsistent' /\ entries.evicted <= entries'.evicted]_vars

\* two entries in the log, one evicted, and a push that has not inserted yet
C28_Witness ==
    /\ max_size = 1
    /\ Len(log) = 2 /\ evicted = 1
    /\ \E i \in Ids : token[i].pc = "push" /\ i < log[2]

\* the clock did not go back between the allocations of the entries
AllocationClockNonDecreasing(e) ==
    \A i, j \in DOMAIN e : i < j => e[i].issue_time <= e[j].issue_time

\* the entries of a snapshot are in the order of their issue_time
InIssueTimeOrder(snapshot, e) ==
    \A k, l \in DOMAIN snapshot.entries :
        k < l => e[snapshot.entries[k]].issue_time <= e[snapshot.entries[l]].issue_time

\* the entries that a step removes from the log
RemovedByStep == {log[k] : k \in DOMAIN log} \ {log'[k] : k \in DOMAIN log'}

\* C29: with a clock that does not go back and pushes that run at the same
\* time, the entries of every snapshot are in non-decreasing issue_time
\* order, and an entry that an eviction removes has the earliest issue_time
\* of the entries in the log.
C29_IssueTimeOrder ==
    [][AllocationClockNonDecreasing(entry') =>
           /\ InIssueTimeOrder(entries', entry')
           /\ \A i \in RemovedByStep : \A k \in DOMAIN log :
                  entry[i].issue_time <= entry[log[k]].issue_time]_vars

(* ------------------- claims on the end of an entry ----------------------- *)

TerminalPhases == {"Success", "Fail", "Cancel"}

\* entry i is in a terminal phase and no longer running
Stopped(i) == i \in Ids /\ entry[i].phase \in TerminalPhases /\ ~entry[i].running

\* C30: when every holder of a token eventually calls the next operation on
\* it or drops it, every pushed entry eventually is in one of the phases
\* Success, Fail and Cancel with running = false; running stays false once
\* it is false; and running is not false in the phases Received, Planned and
\* Permit.
C30_EventuallyStops ==
    /\ \A i \in 1..MaxOps : (i \in Ids) ~> Stopped(i)
    /\ [][\A i \in Ids : ~entry[i].running => ~entry'[i].running]_vars
    /\ [](\A i \in Ids : ~entry[i].running => entry[i].phase \in TerminalPhases)

====
